---- MODULE Spec2Model ----
(***************************************************************************)
(* Primeflow graph store (usePFGraph) and history engine (usePFHistory).   *)
(*                                                                         *)
(* JavaScript objects and arrays are references.  The model keeps values   *)
(* and one extra variable, alias, that says which history snapshot the     *)
(* live graph shares its node array, its edge array and its node and edge  *)
(* objects with (the result of loadGraph(action.beforeState) and of        *)
(* loadGraph(action.afterState)); every in-place mutation of the live      *)
(* graph is written through to that snapshot.                              *)
(***************************************************************************)
EXTENDS Integers, Sequences, FiniteSets, TLC

\* ---------------------------------------------------------------- bounds
\* config.maxNodes / config.maxEdges of the store under test and the
\* maxStackSize of its history, chosen small; MaxActions caps the number of
\* actions recorded and MaxSelects the number of selection calls in one
\* behaviour.
maxNodes == 2
maxEdges == 2
maxStackSize == 2
MaxActions == 3
MaxSelects == 1
MaxX == 5
MaxEditorActions == 2
MaxWheels == 2

VARIABLES
  nodes,          \* state.graph.nodes
  edges,          \* state.graph.edges
  selectedNodes,  \* state.selectedNodes
  selectedEdges,  \* state.selectedEdges
  undoStack,      \* history.state.undoStack (oldest first)
  redoStack,      \* history.state.redoStack
  alias,          \* the snapshot the live graph shares storage with
  nextNodeId,     \* fresh node ids
  nextEdgeId,     \* fresh edge ids
  nextActionId,   \* fresh action ids
  call,           \* the last call of the API and what it returned
  law,            \* the op / undo / redo chain in progress
  run,            \* recorded operations in a row, then undos in a row
  selects,        \* selection calls made so far
  exported,       \* the graph a caller got from exportGraph() and kept
  isUndoing,      \* history.state.isUndoing
  isRedoing,      \* history.state.isRedoing
  viewport,       \* PFGraphSVG: the viewport of the canvas
  edgeCreation,   \* PFGraphSVG: the edge creation in progress
  wheels,         \* wheel events handled so far
  graphConfig,    \* state.graph.config
  isDragging,     \* PFGraphSVG: a node drag is in progress
  dragNodeIds,    \* PFGraphSVG: the nodes being dragged
  isPanning,      \* PFGraphSVG: a pan is in progress
  panStartPos,    \* PFGraphSVG: the pointer where the pan started
  panStartViewport, \* PFGraphSVG: the viewport's origin where the pan started
  minimapDrag     \* PFMinimap: isDragging and the drag of the viewport rectangle

vars == <<nodes, edges, selectedNodes, selectedEdges, undoStack, redoStack,
          alias, nextNodeId, nextEdgeId, nextActionId, call, law, run, selects,
          exported, isUndoing, isRedoing, viewport, edgeCreation, wheels,
          graphConfig, isDragging, dragNodeIds, isPanning, panStartPos,
          panStartViewport, minimapDrag>>

\* the state of a drag, of a pan and of the minimap
dragVars == <<isDragging, dragNodeIds>>
panVars == <<isPanning, panStartPos, panStartViewport>>
pointerVars == <<dragVars, panVars, minimapDrag>>

\* the state of the canvas component and of the minimap
canvasVars == <<viewport, edgeCreation, wheels, pointerVars>>

\* ------------------------------------------------------------ data model
\* config: { ...DEFAULT_CONFIG, ...initialConfig }
config ==
  [maxNodes |-> maxNodes, maxEdges |-> maxEdges,
   nodeDefaults |-> [width |-> 120, height |-> 80]]

Null == 0
Undefined == "undefined"

NoProperties == [def |-> FALSE, kv |-> {}]

InPort == [id |-> "in", type |-> "input"]
OutPort == [id |-> "out", type |-> "output"]
OutPort2 == [id |-> "out2", type |-> "output"]

\* The node data the callers pass to addNode.
NodeInputs ==
  { [title |-> "B", x |-> 0, y |-> 0, width |-> 0, height |-> 0,
     image |-> Undefined, ports |-> <<InPort, OutPort, OutPort2>>,
     properties |-> [def |-> TRUE, kv |-> {<<"k", "v1">>}]] }

\* Node data with its own width and height and a port without an id, and
\* node data with the same id on two ports.  A width or height the data does
\* not have is written 0: the code reads it through `node.width || 120`
\* (PFGraphSVG.vue), to which an absent value and 0 are the same.
PortNodeInputs ==
  { [title |-> "P", x |-> 0, y |-> 0, width |-> 200, height |-> 100,
     image |-> Undefined,
     ports |-> <<[id |-> "", type |-> "input"], OutPort>>,
     properties |-> NoProperties],
    [title |-> "Q", x |-> 0, y |-> 0, width |-> 0, height |-> 0,
     image |-> Undefined,
     ports |-> <<[id |-> "p", type |-> "input"], [id |-> "p", type |-> "output"]>>,
     properties |-> NoProperties] }

PropertyKeys == {"k"}
PropertyValues == {"v2"}
ImageUrls == {"img"}

\* The partial updates the callers pass to updateNode: has names the fields
\* the update holds.
NodeUpdates ==
  { [has |-> {"x", "y"}, x |-> 7, y |-> 7, title |-> "", ports |-> <<>>],
    [has |-> {"x", "y", "ports"}, x |-> 7, y |-> 7, title |-> "",
     ports |-> <<[id |-> "in", type |-> "output"], [id |-> "out", type |-> "input"]>>] }

NoAlias == [act |-> 0, side |-> "none", edgesArr |-> FALSE]
\* no graph kept; shared: the ids of the kept graph's nodes whose properties
\* object is the one of the live node
NoExport ==
  [held |-> FALSE, graph |-> [nodes |-> <<>>, edges |-> <<>>],
   asReturned |-> [nodes |-> <<>>, edges |-> <<>>], shared |-> {}]
NoLaw == [phase |-> "none", kind |-> "none", n0 |-> 0, before |-> <<>>, after |-> <<>>]

\* ------------------------------------------------------------- helpers
SeqIds(s) == {s[i].id : i \in DOMAIN s}

\* Array.prototype.findIndex on an id: the first index, 0 for -1.
findIndex(s, id) ==
  IF \E i \in DOMAIN s : s[i].id = id
  THEN CHOOSE i \in DOMAIN s :
         s[i].id = id /\ \A j \in DOMAIN s : s[j].id = id => i <= j
  ELSE 0

\* Array.prototype.indexOf on an array of ids.
indexOf(s, id) ==
  IF \E i \in DOMAIN s : s[i] = id
  THEN CHOOSE i \in DOMAIN s : s[i] = id /\ \A j \in DOMAIN s : s[j] = id => i <= j
  ELSE 0

\* Array.prototype.splice(i, 1)
splice(s, i) == [j \in 1..(Len(s) - 1) |-> IF j < i THEN s[j] ELSE s[j + 1]]

getNode(ns, id) == findIndex(ns, id)
getEdge(es, id) == findIndex(es, id)

\* find on node.ports: the first port with the id, 0 when there is none.
findPort(node, portId) == findIndex(node.ports, portId)

\* ---------------------------------------------------------- exportGraph
\* exportGraph copies each node and edge one level deep with selected false;
\* the copies still share ports and properties with the live objects.
exportGraph(ns, es) ==
  [nodes |-> [i \in DOMAIN ns |-> [ns[i] EXCEPT !.selected = FALSE]],
   edges |-> [i \in DOMAIN es |-> [es[i] EXCEPT !.selected = FALSE]]]

\* JSON.parse(JSON.stringify(g)): a deep copy in which object keys whose
\* value is undefined are dropped (a property entry, a node's properties).
jsonProperties(p) ==
  IF p.def THEN [def |-> TRUE, kv |-> {e \in p.kv : e[2] # Undefined}]
  ELSE NoProperties

jsonClone(g) ==
  [nodes |-> [i \in DOMAIN g.nodes |->
                [g.nodes[i] EXCEPT !.properties = jsonProperties(@)]],
   edges |-> g.edges]

\* ------------------------------------------------------------- history
\* canUndo that needs two actions in the undo stack
canUndoTwo == Len(undoStack) > 1

canUndo == Len(undoStack) > 0 /\ ~isUndoing /\ ~isRedoing
canRedo == Len(redoStack) > 0 /\ ~isUndoing /\ ~isRedoing

\* createAction: both states are deep-cloned when the action is recorded.
createAction(type, beforeState, afterState) ==
  [id |-> nextActionId, type |-> type,
   beforeState |-> jsonClone(beforeState),
   afterState |-> jsonClone(afterState)]

\* limit without the shift(): the stack grows past maxStackSize
limitNoShift(stack) == stack

\* The size limit of a stack: shift() drops the oldest action.
limit(stack) == IF Len(stack) > maxStackSize THEN Tail(stack) ELSE stack

\* pushAction that leaves the redo stack as it is
pushActionKeepRedo(us, rs, action) ==
  [undoStack |-> IF Len(us) >= maxStackSize THEN Append(Tail(us), action)
                 ELSE Append(us, action),
   redoStack |-> rs, isUndoing |-> isUndoing, isRedoing |-> isRedoing]

\* pushAction: nothing during an undo or a redo; otherwise push on the undo
\* stack, keep the size limit, clear the redo stack.
pushAction(us, rs, action) ==
  IF isUndoing \/ isRedoing
  THEN [undoStack |-> us, redoStack |-> rs,
        isUndoing |-> isUndoing, isRedoing |-> isRedoing]
  ELSE [undoStack |-> limit(Append(us, action)), redoStack |-> <<>>,
        isUndoing |-> isUndoing, isRedoing |-> isRedoing]

pop(stack) == SubSeq(stack, 1, Len(stack) - 1)
top(stack) == stack[Len(stack)]

\* ------------------------------------------------ shared storage (alias)
\* The snapshot al names holds the very node array of the live graph, the
\* very edge array while al.edgesArr, and otherwise the edge objects the
\* live graph still holds.
\* After loadGraph(exportGraph()) on such a graph (side beforeProperties /
\* afterProperties) the live nodes are copies that still hold the snapshot
\* nodes' properties objects, and nothing else of the snapshot.
PropertiesSides == {"beforeProperties", "afterProperties"}

sharedProperties(held, ns) ==
  [i \in DOMAIN held |->
     IF held[i].properties.def /\ getNode(ns, held[i].id) # 0
     THEN [held[i] EXCEPT !.properties = ns[getNode(ns, held[i].id)].properties]
     ELSE held[i]]

syncSnapshot(snap, ns, es, al) ==
  IF al.side \in PropertiesSides
  THEN [nodes |-> sharedProperties(snap.nodes, ns), edges |-> snap.edges]
  ELSE
  [nodes |-> ns,
   edges |-> IF al.edgesArr THEN es
             ELSE [i \in DOMAIN snap.edges |->
                     IF getEdge(es, snap.edges[i].id) # 0
                     THEN es[getEdge(es, snap.edges[i].id)]
                     ELSE snap.edges[i]]]

syncStack(stack, ns, es, al) ==
  [i \in DOMAIN stack |->
     IF stack[i].id # al.act THEN stack[i]
     ELSE IF al.side \in {"before", "beforeProperties"}
          THEN [stack[i] EXCEPT !.beforeState = syncSnapshot(@, ns, es, al)]
          ELSE [stack[i] EXCEPT !.afterState = syncSnapshot(@, ns, es, al)]]

\* An action that left both stacks is garbage: nothing is shared any more.
liveAlias(al, us, rs) ==
  IF al.act \in SeqIds(us) \cup SeqIds(rs) THEN al ELSE NoAlias

\* What JSON.stringify reads in a beforeState exported before the mutation:
\* the exported top-level fields, and each properties object as it is now,
\* since the exported node and the live node hold the same properties object.
seenAtRecord(beforeState, ns) ==
  [beforeState EXCEPT !.nodes =
     [i \in DOMAIN beforeState.nodes |->
        IF beforeState.nodes[i].properties.def
           /\ getNode(ns, beforeState.nodes[i].id) # 0
        THEN [beforeState.nodes[i] EXCEPT
                !.properties = ns[getNode(ns, beforeState.nodes[i].id)].properties]
        ELSE beforeState.nodes[i]]]

\* The history after recordAction(type, beforeState, afterState), the live
\* graph being (ns, es) by then.
recordAction(type, beforeState, afterState, ns, es, al) ==
  pushAction(syncStack(undoStack, ns, es, al), syncStack(redoStack, ns, es, al),
             createAction(type, seenAtRecord(beforeState, ns), afterState))

\* The history after an operation that records nothing.
noRecord(ns, es, al) ==
  [undoStack |-> syncStack(undoStack, ns, es, al),
   redoStack |-> syncStack(redoStack, ns, es, al),
   isUndoing |-> isUndoing, isRedoing |-> isRedoing]

\* The live objects after a call are the ones before it unless the call
\* loaded another snapshot.
sameObjects(al) ==
  /\ al.act = alias.act
  /\ (al.side \in {"before", "beforeProperties"})
       = (alias.side \in {"before", "beforeProperties"})

\* The graph the caller kept: its nodes are copies of the live nodes as
\* exportGraph made them, holding the live nodes' properties objects.
syncExported(ns, al) ==
  IF ~exported.held THEN exported
  ELSE IF ~sameObjects(al) THEN [exported EXCEPT !.shared = {}]
  ELSE [exported EXCEPT !.graph.nodes =
          [i \in DOMAIN exported.graph.nodes |->
             LET n == exported.graph.nodes[i]
             IN  IF n.id \in exported.shared /\ getNode(ns, n.id) # 0
                 THEN [n EXCEPT !.properties = ns[getNode(ns, n.id)].properties]
                 ELSE n]]

\* The state after a call: the live graph, the selection and the history.
CommitWith(ns, es, sn, se, al, h, recorded, cfg) ==
  /\ graphConfig' = cfg
  /\ exported' = syncExported(ns, al)
  /\ nodes' = ns
  /\ edges' = es
  /\ selectedNodes' = sn
  /\ selectedEdges' = se
  /\ undoStack' = h.undoStack
  /\ redoStack' = h.redoStack
  /\ isUndoing' = h.isUndoing
  /\ isRedoing' = h.isRedoing
  /\ alias' = liveAlias(al, h.undoStack, h.redoStack)
  /\ nextActionId' = IF recorded THEN nextActionId + 1 ELSE nextActionId

\* a call that leaves state.graph the object it was
Commit(ns, es, sn, se, al, h, recorded) ==
  CommitWith(ns, es, sn, se, al, h, recorded, graphConfig)

\* The last call: its name, the id it was given (Null when none), what it
\* returned ("id": the new id, in new) and its console.warn message.
Call(op, id, ret, new, warn) ==
  call' = [op |-> op, id |-> id, ret |-> ret, new |-> new, warn |-> warn]

\* A call that returns early: nothing changes.
Rejected(op, id, ret, warn) ==
  /\ Call(op, id, ret, Null, warn)
  /\ law' = NoLaw
  /\ UNCHANGED <<nodes, edges, selectedNodes, selectedEdges, undoStack,
                 redoStack, alias, nextNodeId, nextEdgeId, nextActionId, run,
                 selects, exported, isUndoing, isRedoing, graphConfig>>

\* The op / undo / redo chain: a recorded operation starts it.
startLaw(kind, ns1, es1) ==
  law' = [phase |-> "op", kind |-> kind, n0 |-> nextActionId,
          before |-> exportGraph(nodes, edges), after |-> exportGraph(ns1, es1)]

\* All recording operations stop once MaxActions actions were recorded.
MayRecord == nextActionId <= MaxActions

\* run after a recorded operation, after an undo, after redo / clearHistory:
\* recs recorded operations in a row, then undos successful undos in a row;
\* sinceUndo tells whether an action was recorded since the last undo.
runRecorded ==
  run' = [recs |-> IF run.undos > 0 THEN 1
                   ELSE IF run.recs > maxStackSize THEN run.recs
                   ELSE run.recs + 1,
          undos |-> 0, sinceUndo |-> IF run.sinceUndo = "never" THEN "never"
                                     ELSE "recorded"]
runUndone == run' = [run EXCEPT !.undos = @ + 1, !.sinceUndo = "nothing"]
runReset == run' = [run EXCEPT !.recs = 0, !.undos = 0]

\* ------------------------------------------------------------ selection
\* Selection calls stop once MaxSelects of them were made.
MaySelect == selects < MaxSelects

Range(s) == {s[i] : i \in DOMAIN s}

\* node.selected = v on getNode(id), when there is such a node
setNodeSelected(ns, id, v) ==
  IF getNode(ns, id) = 0 THEN ns
  ELSE [ns EXCEPT ![getNode(ns, id)].selected = v]

setEdgeSelected(es, id, v) ==
  IF getEdge(es, id) = 0 THEN es
  ELSE [es EXCEPT ![getEdge(es, id)].selected = v]

\* clearSelection on the nodes: selected = false on every selected id's node
clearNodeFlags(ns, sn) ==
  [i \in DOMAIN ns |->
     IF ns[i].id \in Range(sn) /\ getNode(ns, ns[i].id) = i
     THEN [ns[i] EXCEPT !.selected = FALSE] ELSE ns[i]]

clearEdgeFlags(es, se) ==
  [i \in DOMAIN es |->
     IF es[i].id \in Range(se) /\ getEdge(es, es[i].id) = i
     THEN [es[i] EXCEPT !.selected = FALSE] ELSE es[i]]

clearSelection ==
  /\ Commit(clearNodeFlags(nodes, selectedNodes),
            clearEdgeFlags(edges, selectedEdges), <<>>, <<>>, alias,
            noRecord(clearNodeFlags(nodes, selectedNodes),
                     clearEdgeFlags(edges, selectedEdges), alias), FALSE)
  /\ Call("clearSelection", Null, "void", Null, "")
  /\ law' = NoLaw
  /\ MaySelect /\ selects' = selects + 1
  /\ UNCHANGED <<nextNodeId, nextEdgeId, run>>

selectNode(nodeId, multiSelect) ==
  LET ns0 == IF multiSelect THEN nodes ELSE clearNodeFlags(nodes, selectedNodes)
      es0 == IF multiSelect THEN edges ELSE clearEdgeFlags(edges, selectedEdges)
      sn0 == IF multiSelect THEN selectedNodes ELSE <<>>
      se0 == IF multiSelect THEN selectedEdges ELSE <<>>
      isIn == nodeId \in Range(sn0)
      ns1 == IF isIn THEN ns0 ELSE setNodeSelected(ns0, nodeId, TRUE)
      sn1 == IF isIn THEN sn0 ELSE Append(sn0, nodeId)
  IN  /\ Commit(ns1, es0, sn1, se0, alias, noRecord(ns1, es0, alias), FALSE)
      /\ Call("selectNode", nodeId, "void", Null, "")
      /\ law' = NoLaw
      /\ MaySelect /\ selects' = selects + 1
      /\ UNCHANGED <<nextNodeId, nextEdgeId, run>>

selectEdge(edgeId, multiSelect) ==
  LET ns0 == IF multiSelect THEN nodes ELSE clearNodeFlags(nodes, selectedNodes)
      es0 == IF multiSelect THEN edges ELSE clearEdgeFlags(edges, selectedEdges)
      sn0 == IF multiSelect THEN selectedNodes ELSE <<>>
      se0 == IF multiSelect THEN selectedEdges ELSE <<>>
      isIn == edgeId \in Range(se0)
      es1 == IF isIn THEN es0 ELSE setEdgeSelected(es0, edgeId, TRUE)
      se1 == IF isIn THEN se0 ELSE Append(se0, edgeId)
  IN  /\ Commit(ns0, es1, sn0, se1, alias, noRecord(ns0, es1, alias), FALSE)
      /\ Call("selectEdge", edgeId, "void", Null, "")
      /\ law' = NoLaw
      /\ MaySelect /\ selects' = selects + 1
      /\ UNCHANGED <<nextNodeId, nextEdgeId, run>>

\* deselectNode: the selection without the id and the new node array
deselectNodeSel(sn, id) == IF indexOf(sn, id) = 0 THEN sn ELSE splice(sn, indexOf(sn, id))
deselectNodeFlags(ns, sn, id) ==
  IF indexOf(sn, id) = 0 THEN ns ELSE setNodeSelected(ns, id, FALSE)

\* ------------------------------------------------------ node operations
\* the cap compared with <= : one node too many
canAddNodeOffByOne == Len(nodes) <= maxNodes

canAddNode == Len(nodes) < maxNodes
canAddEdge == Len(edges) < maxEdges

\* Date.now(), a logical clock: it advances with every recorded action.
DateNow == nextActionId

\* port.id || `port_${Date.now()}_${random}`
portId(port, i) ==
  IF port.id = "" THEN "port_" \o ToString(nextNodeId) \o "_" \o ToString(i)
  ELSE port.id

\* the node addNode builds: { ...node, id, selected: false, ports: ... }
newNode(node, id) ==
  [id |-> id, title |-> node.title, x |-> node.x, y |-> node.y,
   width |-> node.width, height |-> node.height, image |-> node.image,
   ports |-> [i \in DOMAIN node.ports |->
                [node.ports[i] EXCEPT !.id = portId(node.ports[i], i)]],
   properties |-> node.properties, selected |-> FALSE]

\* duplicateNode that leaves the action as addNode recorded it
relabelNone(h, type) == h

\* duplicateNode's relabelling of the last action of the undo stack
relabel(h, type) ==
  IF Len(h.undoStack) > 0
  THEN [h EXCEPT !.undoStack[Len(h.undoStack)].type = type]
  ELSE h

\* addNode(node), called as op; type is the type its action is left with.
addNodeAs(node, op, arg, type) ==
  IF ~canAddNode THEN Rejected(op, arg, "null", "maximum nodes reached")
  ELSE
    LET ns1 == Append(nodes, newNode(node, nextNodeId))
        h == recordAction("add_node", exportGraph(nodes, edges),
                          exportGraph(ns1, edges), ns1, edges, alias)
    IN  /\ MayRecord
        /\ Commit(ns1, edges, selectedNodes, selectedEdges, alias,
                  IF type = "add_node" THEN h ELSE relabel(h, type), TRUE)
        /\ nextNodeId' = nextNodeId + 1
        /\ Call(op, arg, "id", nextNodeId, "")
        /\ startLaw(type, ns1, edges)
        /\ runRecorded
        /\ UNCHANGED <<nextEdgeId, selects>>

addNode(node) == addNodeAs(node, "addNode", Null, "add_node")

\* removeNode without the cascade
withoutEdgesOfNoCascade(es, nodeId) == es

\* edges.filter(edge => edge.sourceNodeId !== nodeId && edge.targetNodeId !== nodeId)
withoutEdgesOf(es, nodeId) ==
  LET Keep(e) == e.sourceNodeId # nodeId /\ e.targetNodeId # nodeId
  IN  SelectSeq(es, Keep)

removeNode(nodeId) ==
  LET nodeIndex == findIndex(nodes, nodeId)
      es1 == withoutEdgesOf(edges, nodeId)
      ns1 == splice(nodes, nodeIndex)
      ns2 == deselectNodeFlags(ns1, selectedNodes, nodeId)
      sn2 == deselectNodeSel(selectedNodes, nodeId)
      al1 == [alias EXCEPT !.edgesArr = FALSE]
  IN  IF nodeIndex = 0 THEN Rejected("removeNode", nodeId, "false", "")
      ELSE /\ MayRecord
           /\ Commit(ns2, es1, sn2, selectedEdges, al1,
                     recordAction("remove_node", exportGraph(nodes, edges),
                                  exportGraph(ns2, es1), ns2, es1, al1), TRUE)
           /\ Call("removeNode", nodeId, "true", Null, "")
           /\ startLaw("remove_node", ns2, es1)
           /\ runRecorded
           /\ UNCHANGED <<nextNodeId, nextEdgeId, selects>>

\* Object.assign(node, updates) for the fields the update holds
assign(node, updates) ==
  [node EXCEPT !.x = IF "x" \in updates.has THEN updates.x ELSE @,
               !.y = IF "y" \in updates.has THEN updates.y ELSE @,
               !.title = IF "title" \in updates.has THEN updates.title ELSE @,
               !.ports = IF "ports" \in updates.has THEN updates.ports ELSE @]

updateNode(nodeId, updates) ==
  LET i == getNode(nodes, nodeId)
      ns1 == [nodes EXCEPT ![i] = assign(@, updates)]
  IN  IF i = 0 THEN Rejected("updateNode", nodeId, "false", "")
      ELSE IF "x" \in updates.has \/ "y" \in updates.has
      THEN /\ MayRecord
           /\ Commit(ns1, edges, selectedNodes, selectedEdges, alias,
                     recordAction("move_node", exportGraph(nodes, edges),
                                  exportGraph(ns1, edges), ns1, edges, alias), TRUE)
           /\ Call("updateNode", nodeId, "true", Null, "")
           /\ startLaw("move_node", ns1, edges)
           /\ runRecorded
           /\ UNCHANGED <<nextNodeId, nextEdgeId, selects>>
      ELSE /\ Commit(ns1, edges, selectedNodes, selectedEdges, alias,
                     noRecord(ns1, edges, alias), FALSE)
           /\ Call("updateNode", nodeId, "true", Null, "")
           /\ law' = NoLaw
           /\ UNCHANGED <<nextNodeId, nextEdgeId, run, selects>>

\* node.properties[propertyKey] = value, on {} when there were none
setProperty(p, key, value) ==
  [def |-> TRUE, kv |-> {e \in p.kv : e[1] # key} \cup {<<key, value>>}]

updateNodeProperty(nodeId, propertyKey, value) ==
  LET i == getNode(nodes, nodeId)
      ns1 == [nodes EXCEPT ![i].properties = setProperty(@, propertyKey, value)]
  IN  IF i = 0 THEN Rejected("updateNodeProperty", nodeId, "false", "")
      ELSE /\ MayRecord
           /\ Commit(ns1, edges, selectedNodes, selectedEdges, alias,
                     recordAction("update_property", exportGraph(nodes, edges),
                                  exportGraph(ns1, edges), ns1, edges, alias), TRUE)
           /\ Call("updateNodeProperty", nodeId, "true", Null, "")
           /\ startLaw("update_property", ns1, edges)
           /\ runRecorded
           /\ UNCHANGED <<nextNodeId, nextEdgeId, selects>>

updateNodeImage(nodeId, imageUrl) ==
  LET i == getNode(nodes, nodeId)
      ns1 == [nodes EXCEPT ![i].image = imageUrl]
  IN  IF i = 0 THEN Rejected("updateNodeImage", nodeId, "false", "")
      ELSE /\ MayRecord
           /\ Commit(ns1, edges, selectedNodes, selectedEdges, alias,
                     recordAction("update_property", exportGraph(nodes, edges),
                                  exportGraph(ns1, edges), ns1, edges, alias), TRUE)
           /\ Call("updateNodeImage", nodeId, "true", Null, "")
           /\ startLaw("update_image", ns1, edges)
           /\ runRecorded
           /\ UNCHANGED <<nextNodeId, nextEdgeId, selects>>

\* the node data duplicateNode passes to addNode
duplicatedNode(original) ==
  [title |-> original.title \o " (Copy)",
   x |-> original.x + 20, y |-> original.y + 20,
   width |-> original.width, height |-> original.height,
   image |-> original.image,
   ports |-> [i \in DOMAIN original.ports |->
                [original.ports[i] EXCEPT
                   !.id = @ \o "_copy_" \o ToString(DateNow)]],
   properties |-> original.properties]

duplicateNode(nodeId) ==
  IF getNode(nodes, nodeId) = 0 THEN Rejected("duplicateNode", nodeId, "null", "")
  ELSE addNodeAs(duplicatedNode(nodes[getNode(nodes, nodeId)]),
                 "duplicateNode", nodeId, "duplicate_node")

\* forEach id: splice(findIndex(id), 1) when found
\* deleteSelectedNodes that leaves the nodes in the graph
removeAllNone(ns, ids) == ns

RECURSIVE removeAll(_, _)
removeAll(ns, ids) ==
  IF ids = <<>> THEN ns
  ELSE removeAll(IF findIndex(ns, Head(ids)) = 0 THEN ns
                 ELSE splice(ns, findIndex(ns, Head(ids))), Tail(ids))

deleteSelectedNodes ==
  LET Keep(e) == e.sourceNodeId \notin Range(selectedNodes)
                 /\ e.targetNodeId \notin Range(selectedNodes)
      es1 == SelectSeq(edges, Keep)
      ns1 == removeAll(nodes, selectedNodes)
      ns2 == clearNodeFlags(ns1, selectedNodes)
      es2 == clearEdgeFlags(es1, selectedEdges)
      al1 == [alias EXCEPT !.edgesArr = FALSE]
  IN  IF Len(selectedNodes) = 0 THEN Rejected("deleteSelectedNodes", Null, "void", "")
      ELSE /\ MayRecord
           /\ Commit(ns2, es2, <<>>, <<>>, al1,
                     recordAction("delete_selected", exportGraph(nodes, edges),
                                  exportGraph(ns2, es2), ns2, es2, al1), TRUE)
           /\ Call("deleteSelectedNodes", Null, "void", Null, "")
           /\ startLaw("delete_selected", ns2, es2)
           /\ runRecorded
           /\ UNCHANGED <<nextNodeId, nextEdgeId, selects>>

\* ------------------------------------------------------ edge operations
\* a duplicate check that never finds the edge
existingEdgeNever(es, edge) == 0

\* the first edge with the same four ids, 0 when there is none
existingEdge(es, edge) ==
  IF \E i \in DOMAIN es :
       /\ es[i].sourceNodeId = edge.sourceNodeId
       /\ es[i].sourcePortId = edge.sourcePortId
       /\ es[i].targetNodeId = edge.targetNodeId
       /\ es[i].targetPortId = edge.targetPortId
  THEN 1 ELSE 0

newEdge(edge, id) ==
  [id |-> id, sourceNodeId |-> edge.sourceNodeId,
   sourcePortId |-> edge.sourcePortId, targetNodeId |-> edge.targetNodeId,
   targetPortId |-> edge.targetPortId, selected |-> FALSE]

\* addEdge without the check of the port types
addEdgeRejectionNoTypes(edge) ==
  LET s == getNode(nodes, edge.sourceNodeId)
      t == getNode(nodes, edge.targetNodeId)
  IN  IF ~canAddEdge THEN "maximum edges reached"
      ELSE IF s = 0 \/ t = 0 THEN "source or target node not found"
      ELSE IF findPort(nodes[s], edge.sourcePortId) = 0
              \/ findPort(nodes[t], edge.targetPortId) = 0
      THEN "source or target port not found"
      ELSE IF existingEdge(edges, edge) # 0
      THEN "Edge already exists between these ports"
      ELSE ""

\* the checks of addEdge, in the order of the code; "" when all pass
addEdgeRejection(edge) ==
  LET s == getNode(nodes, edge.sourceNodeId)
      t == getNode(nodes, edge.targetNodeId)
  IN  IF ~canAddEdge THEN "maximum edges reached"
      ELSE IF s = 0 \/ t = 0 THEN "source or target node not found"
      ELSE IF findPort(nodes[s], edge.sourcePortId) = 0
              \/ findPort(nodes[t], edge.targetPortId) = 0
      THEN "source or target port not found"
      ELSE IF nodes[s].ports[findPort(nodes[s], edge.sourcePortId)].type # "output"
              \/ nodes[t].ports[findPort(nodes[t], edge.targetPortId)].type # "input"
      THEN "must connect output port to input port"
      ELSE IF existingEdge(edges, edge) # 0 THEN "Edge already exists between these ports"
      ELSE ""

addEdge(edge) ==
  LET es1 == Append(edges, newEdge(edge, nextEdgeId))
  IN  IF addEdgeRejection(edge) # "" THEN Rejected("addEdge", Null, "null", addEdgeRejection(edge))
      ELSE /\ MayRecord
           /\ Commit(nodes, es1, selectedNodes, selectedEdges, alias,
                     recordAction("add_edge", exportGraph(nodes, edges),
                                  exportGraph(nodes, es1), nodes, es1, alias), TRUE)
           /\ nextEdgeId' = nextEdgeId + 1
           /\ Call("addEdge", Null, "id", nextEdgeId, "")
           /\ startLaw("add_edge", nodes, es1)
           /\ runRecorded
           /\ UNCHANGED <<nextNodeId, selects>>

\* the index without the -1 test: splice(-1, 1) takes the last edge
findEdgeIndexLast(es, edgeId) ==
  IF findIndex(es, edgeId) = 0 THEN Len(es) ELSE findIndex(es, edgeId)

\* edges.findIndex(e => e.id === edgeId), 0 for -1
findEdgeIndex(es, edgeId) == findIndex(es, edgeId)

removeEdge(edgeId) ==
  LET edgeIndex == findEdgeIndex(edges, edgeId)
      es1 == splice(edges, edgeIndex)
      se1 == IF indexOf(selectedEdges, edgeId) = 0 THEN selectedEdges
             ELSE splice(selectedEdges, indexOf(selectedEdges, edgeId))
  IN  IF edgeIndex = 0 THEN Rejected("removeEdge", edgeId, "void", "")
      ELSE /\ MayRecord
           /\ Commit(nodes, es1, selectedNodes, se1, alias,
                     recordAction("remove_edge", exportGraph(nodes, edges),
                                  exportGraph(nodes, es1), nodes, es1, alias), TRUE)
           /\ Call("removeEdge", edgeId, "void", Null, "")
           /\ startLaw("remove_edge", nodes, es1)
           /\ runRecorded
           /\ UNCHANGED <<nextNodeId, nextEdgeId, selects>>

\* ------------------------------------------------- clear, load, undo, redo
clearGraph ==
  /\ Commit(<<>>, <<>>, <<>>, <<>>, NoAlias, noRecord(<<>>, <<>>, NoAlias), FALSE)
  /\ Call("clearGraph", Null, "void", Null, "")
  /\ law' = NoLaw
  /\ UNCHANGED <<nextNodeId, nextEdgeId, run, selects>>

clearHistory ==
  /\ undoStack' = <<>>
  /\ redoStack' = <<>>
  /\ alias' = NoAlias
  /\ Call("clearHistory", Null, "void", Null, "")
  /\ law' = NoLaw
  /\ runReset
  /\ UNCHANGED <<nodes, edges, selectedNodes, selectedEdges, nextNodeId,
                 nextEdgeId, nextActionId, selects, exported, isUndoing,
                 isRedoing, graphConfig>>

\* loadGraph that adds the loaded nodes and edges to the ones of the store
loadGraphMerge(graph) ==
  [nodes |-> nodes \o clearNodeFlags(graph.nodes, selectedNodes),
   edges |-> edges \o clearEdgeFlags(graph.edges, selectedEdges),
   config |-> config]

\* loadGraph that drops the edges
loadGraphNoEdges(graph) ==
  [nodes |-> clearNodeFlags(graph.nodes, selectedNodes), edges |-> <<>>,
   config |-> config]

\* loadGraph(graph): state.graph = { ...graph, config }, then clearSelection()
\* on the loaded arrays, which are the arrays of graph itself.
loadGraph(graph) ==
  [nodes |-> clearNodeFlags(graph.nodes, selectedNodes),
   edges |-> clearEdgeFlags(graph.edges, selectedEdges),
   config |-> config]

\* history.undo() that copies the action instead of moving it
historyUndoCopy ==
  [action |-> top(undoStack), undoStack |-> undoStack,
   redoStack |-> limit(Append(redoStack, top(undoStack))),
   isUndoing |-> FALSE, isRedoing |-> isRedoing]

\* history.undo() without the reset of isUndoing
historyUndoStillUndoing ==
  [action |-> top(undoStack), undoStack |-> pop(undoStack),
   redoStack |-> limit(Append(redoStack, top(undoStack))),
   isUndoing |-> TRUE, isRedoing |-> isRedoing]

\* history.undo(): the action moves from the undo stack to the redo stack
\* with isUndoing set; isUndoing is false again when it returns.
historyUndo ==
  [action |-> top(undoStack), undoStack |-> pop(undoStack),
   redoStack |-> limit(Append(redoStack, top(undoStack))),
   isUndoing |-> FALSE, isRedoing |-> isRedoing]

\* history.redo(): the action moves back to the undo stack with isRedoing
\* set; isRedoing is false again when it returns.
historyRedo ==
  [action |-> top(redoStack), redoStack |-> pop(redoStack),
   undoStack |-> limit(Append(undoStack, top(redoStack))),
   isUndoing |-> isUndoing, isRedoing |-> FALSE]

undo ==
  IF ~canUndo THEN Rejected("undo", Null, "false", "")
  ELSE
    LET h == historyUndo
        g == loadGraph(h.action.beforeState)
        al == [act |-> h.action.id, side |-> "before", edgesArr |-> TRUE]
    IN  /\ CommitWith(g.nodes, g.edges, <<>>, <<>>, al,
                  [undoStack |-> syncStack(h.undoStack, g.nodes, g.edges, al),
                   redoStack |-> syncStack(h.redoStack, g.nodes, g.edges, al),
                   isUndoing |-> h.isUndoing, isRedoing |-> h.isRedoing],
                  FALSE, g.config)
        /\ Call("undo", Null, "true", Null, "")
        /\ law' = IF law.phase = "op" THEN [law EXCEPT !.phase = "undone"]
                  ELSE NoLaw
        /\ runUndone
        /\ UNCHANGED <<nextNodeId, nextEdgeId, selects>>

redo ==
  IF ~canRedo THEN Rejected("redo", Null, "false", "")
  ELSE
    LET h == historyRedo
        g == loadGraph(h.action.afterState)
        al == [act |-> h.action.id, side |-> "after", edgesArr |-> TRUE]
    IN  /\ CommitWith(g.nodes, g.edges, <<>>, <<>>, al,
                  [undoStack |-> syncStack(h.undoStack, g.nodes, g.edges, al),
                   redoStack |-> syncStack(h.redoStack, g.nodes, g.edges, al),
                   isUndoing |-> h.isUndoing, isRedoing |-> h.isRedoing],
                  FALSE, g.config)
        /\ Call("redo", Null, "true", Null, "")
        /\ law' = IF law.phase = "undone" THEN [law EXCEPT !.phase = "redone"]
                  ELSE NoLaw
        /\ runReset
        /\ UNCHANGED <<nextNodeId, nextEdgeId, selects>>

\* ---------------------------------------------------------------- inputs
portIds(node, type) ==
  {node.ports[j].id : j \in {k \in DOMAIN node.ports : node.ports[k].type = type}}

\* output to input between any two nodes (also of one node); reversed;
\* a port that is not on the node; a node that is not in the graph
EdgeInputs ==
  UNION {[sourceNodeId : {nodes[i].id}, sourcePortId : portIds(nodes[i], "output"),
          targetNodeId : {nodes[j].id}, targetPortId : portIds(nodes[j], "input")]
           : i \in DOMAIN nodes, j \in DOMAIN nodes}
  \cup
  UNION {[sourceNodeId : {nodes[i].id}, sourcePortId : portIds(nodes[i], "input"),
          targetNodeId : {nodes[i].id}, targetPortId : {"out"}]
           : i \in DOMAIN nodes}
  \cup
  UNION {[sourceNodeId : {nodes[i].id}, sourcePortId : {"none"},
          targetNodeId : {nodes[i].id}, targetPortId : portIds(nodes[i], "input")]
           : i \in DOMAIN nodes}
  \cup
  {[sourceNodeId |-> nextNodeId, sourcePortId |-> "out",
    targetNodeId |-> nextNodeId, targetPortId |-> "in"]}

\* ------------------------------------------------------------ the canvas
\* The numbers of the viewport are fractions <<numerator, denominator>> in
\* lowest terms, the denominator positive.
RECURSIVE GCD(_, _)
GCD(a, b) == IF b = 0 THEN a ELSE GCD(b, a % b)

Abs(n) == IF n < 0 THEN -n ELSE n

Rat(n, d) == <<n \div GCD(Abs(n), d), d \div GCD(Abs(n), d)>>
Num(n) == <<n, 1>>
Plus(a, b) ==
  LET g == GCD(a[2], b[2])
  IN  Rat(a[1] * (b[2] \div g) + b[1] * (a[2] \div g), (a[2] \div g) * b[2])
Minus(a, b) == Plus(a, <<-b[1], b[2]>>)
Times(a, b) ==
  LET g1 == GCD(Abs(a[1]), b[2])
      g2 == GCD(Abs(b[1]), a[2])
  IN  Rat((a[1] \div g1) * (b[1] \div g2), (a[2] \div g2) * (b[2] \div g1))
Over(a, b) == Times(a, IF b[1] > 0 THEN <<b[2], b[1]>> ELSE <<-b[2], -b[1]>>)

\* props.width and props.height of the canvas
canvasWidth == 800
canvasHeight == 600

\* the canvas as PFGraphSVG sets it up
InitialViewport ==
  [x |-> Num(0), y |-> Num(0), width |-> Num(canvasWidth),
   height |-> Num(canvasHeight), scale |-> Num(1)]

\* no edge creation yet ('' as a node id is Null); after a reset
NoEdgeCreation ==
  [active |-> FALSE, fromNodeId |-> Null, fromPortId |-> "", fromPortType |-> ""]
ResetEdgeCreation ==
  [active |-> FALSE, fromNodeId |-> Null, fromPortId |-> "", fromPortType |-> "output"]

\* the minimap before any drag: isDragging, the document listeners of a drag
\* of the viewport rectangle, and the origin that drag started from
NoMinimapDrag ==
  [isDragging |-> FALSE, listening |-> FALSE, startViewport |-> [x |-> Num(0), y |-> Num(0)]]

\* An event the canvas handles without calling the store.
CanvasEvent(op, id) == Rejected(op, id, "void", "")

\* the cursor positions of the wheel events, in canvas pixels
WheelCursors == {<<0, 0>>, <<400, 300>>, <<800, 600>>, <<200, 450>>}
WheelDeltas == {-1, 1}

\* the screen-to-world transform of a distance (pan): (delta / props.width)
\* * viewport.width
worldDelta(delta, canvas, extent) == Times(Over(Num(delta), Num(canvas)), extent)

\* a zoom that leaves the viewport's corner where it was
zoomedCornerFixed(mouse, canvas, corner, extent, extent1) == corner

\* viewport.x = worldX - (mouseX / props.width) * viewport.width, worldX
\* being viewport.x + (mouseX / props.width) * viewport.width before the zoom
zoomedCorner(mouse, canvas, corner, extent, extent1) ==
  Minus(Plus(corner, Times(Over(Num(mouse), Num(canvas)), extent)),
        Times(Over(Num(mouse), Num(canvas)), extent1))

zoomFactor == <<11, 10>>

\* handleWheel: deltaY < 0 zooms in
handleWheel(mouseX, mouseY, deltaY) ==
  LET width1 == IF deltaY < 0 THEN Over(viewport.width, zoomFactor)
                ELSE Times(viewport.width, zoomFactor)
      height1 == IF deltaY < 0 THEN Over(viewport.height, zoomFactor)
                 ELSE Times(viewport.height, zoomFactor)
      scale1 == IF deltaY < 0 THEN Times(viewport.scale, zoomFactor)
                ELSE Over(viewport.scale, zoomFactor)
  IN  /\ wheels < MaxWheels
      /\ wheels' = wheels + 1
      /\ viewport' =
           [x |-> zoomedCorner(mouseX, canvasWidth, viewport.x, viewport.width, width1),
            y |-> zoomedCorner(mouseY, canvasHeight, viewport.y, viewport.height, height1),
            width |-> width1, height |-> height1, scale |-> scale1]
      /\ UNCHANGED <<edgeCreation, pointerVars>>
      /\ CanvasEvent("handleWheel", Null)

\* handlePortMouseDown: an output port starts an edge creation.
handlePortMouseDown(nodeId, fromPortId, portType) ==
  /\ edgeCreation' =
       IF portType = "output"
       THEN [active |-> TRUE, fromNodeId |-> nodeId, fromPortId |-> fromPortId,
             fromPortType |-> portType]
       ELSE edgeCreation
  /\ UNCHANGED <<viewport, wheels, pointerVars>>
  /\ CanvasEvent("handlePortMouseDown", nodeId)

\* PFGraphEditor.handleEdgeCreate: addEdge, selected false
handleEdgeCreate(fromNodeId, fromPortId, toNodeId, toPortId) ==
  addEdge([sourceNodeId |-> fromNodeId, sourcePortId |-> fromPortId,
           targetNodeId |-> toNodeId, targetPortId |-> toPortId])

\* the port exists, is an input, and the creation started on an output
validConnection(nodeId, targetPortId) ==
  /\ getNode(nodes, nodeId) # 0
  /\ findPort(nodes[getNode(nodes, nodeId)], targetPortId) # 0
  /\ nodes[getNode(nodes, nodeId)]
       .ports[findPort(nodes[getNode(nodes, nodeId)], targetPortId)].type = "input"
  /\ edgeCreation.fromPortType = "output"

\* handlePortMouseUp (mouseup.stop: the canvas does not see the event): an
\* input port ends the edge creation, with 'edge-create' when valid.
handlePortMouseUp(nodeId, targetPortId, portType) ==
  IF edgeCreation.active /\ portType = "input"
  THEN /\ edgeCreation' = ResetEdgeCreation
       /\ UNCHANGED <<viewport, wheels, pointerVars>>
       /\ IF validConnection(nodeId, targetPortId)
          THEN handleEdgeCreate(edgeCreation.fromNodeId, edgeCreation.fromPortId,
                                nodeId, targetPortId)
          ELSE CanvasEvent("handlePortMouseUp", nodeId)
  ELSE /\ UNCHANGED canvasVars
       /\ CanvasEvent("handlePortMouseUp", nodeId)

\* handlePortClick (click.stop): ends an edge creation like handlePortMouseUp,
\* on a port of either type.
handlePortClick(nodeId, targetPortId) ==
  IF edgeCreation.active
  THEN /\ edgeCreation' = ResetEdgeCreation
       /\ UNCHANGED <<viewport, wheels, pointerVars>>
       /\ IF validConnection(nodeId, targetPortId)
          THEN handleEdgeCreate(edgeCreation.fromNodeId, edgeCreation.fromPortId,
                                nodeId, targetPortId)
          ELSE CanvasEvent("handlePortClick", nodeId)
  ELSE /\ UNCHANGED canvasVars
       /\ CanvasEvent("handlePortClick", nodeId)

\* handleNodeMouseDown: starts the drag of the node, or of every node
\* flagged selected when the node is one of them.
handleNodeMouseDown(nodeId) ==
  LET flagged == {i \in DOMAIN nodes : nodes[i].selected}
  IN  /\ isDragging' = TRUE
      /\ dragNodeIds' =
           IF \E i \in flagged : nodes[i].id = nodeId
           THEN [k \in 1..Cardinality(flagged) |->
                   nodes[CHOOSE i \in flagged :
                           Cardinality({j \in flagged : j < i}) = k - 1].id]
           ELSE <<nodeId>>
      /\ UNCHANGED <<viewport, edgeCreation, wheels, panVars, minimapDrag>>
      /\ CanvasEvent("handleNodeMouseDown", nodeId)

\* handleMouseUp: ends the drag and the edge creation; op is the handler
\* of the svg that called it.
handleMouseUp(op) ==
  /\ isDragging' = FALSE
  /\ dragNodeIds' = IF isDragging THEN <<>> ELSE dragNodeIds
  /\ edgeCreation' = IF edgeCreation.active THEN ResetEdgeCreation ELSE edgeCreation
  /\ UNCHANGED <<viewport, wheels, panStartPos, panStartViewport, minimapDrag>>
  /\ CanvasEvent(op, Null)

\* handleMouseUpWithPanning, for a mouseup that reaches the svg (released on
\* the background, on a node body or on an edge)
handleMouseUpWithPanning ==
  /\ isPanning' = FALSE
  /\ handleMouseUp("handleMouseUp")

handleMouseLeave ==
  /\ UNCHANGED isPanning
  /\ handleMouseUp("handleMouseLeave")

\* handleCanvasClick, then PFGraphEditor.handleCanvasClick: clearSelection()
\* unless a modifier key is held
handleCanvasClick(modifier) ==
  /\ edgeCreation' = IF edgeCreation.active THEN ResetEdgeCreation ELSE edgeCreation
  /\ UNCHANGED <<viewport, wheels, pointerVars>>
  /\ IF modifier THEN CanvasEvent("handleCanvasClick", Null)
     ELSE /\ Commit(clearNodeFlags(nodes, selectedNodes),
                    clearEdgeFlags(edges, selectedEdges), <<>>, <<>>, alias,
                    noRecord(clearNodeFlags(nodes, selectedNodes),
                             clearEdgeFlags(edges, selectedEdges), alias), FALSE)
          /\ Call("handleCanvasClick", Null, "void", Null, "")
          /\ law' = NoLaw
          /\ UNCHANGED <<nextNodeId, nextEdgeId, run, selects>>

\* the ports as the canvas draws them: <<node id, port id, port type>>
DrawnPorts ==
  UNION {{<<nodes[i].id, nodes[i].ports[j].id, nodes[i].ports[j].type>> :
            j \in DOMAIN nodes[i].ports} : i \in DOMAIN nodes}

\* ------------------------------------------------ clear, load and import
\* PFGraphEditor.clearGraph, the one the editor exposes and its Clear button
\* calls: new empty arrays, and nothing else.
editorClearGraph ==
  /\ Commit(<<>>, <<>>, selectedNodes, selectedEdges, NoAlias,
            noRecord(<<>>, <<>>, NoAlias), FALSE)
  /\ Call("PFGraphEditor.clearGraph", Null, "void", Null, "")
  /\ law' = NoLaw
  /\ UNCHANGED <<nextNodeId, nextEdgeId, run, selects>>

\* A node a document holds; its id is none the store generates.
DocumentNode ==
  [id |-> 9, title |-> "D", x |-> 1, y |-> 1, width |-> 120, height |-> 80,
   image |-> Undefined,
   ports |-> <<InPort, OutPort>>, properties |-> NoProperties,
   selected |-> FALSE]
DocumentEdge ==
  [id |-> 9, sourceNodeId |-> 9, sourcePortId |-> "out",
   targetNodeId |-> 9, targetPortId |-> "in", selected |-> FALSE]
DocumentConfig ==
  [maxNodes |-> 1, maxEdges |-> 1, nodeDefaults |-> [width |-> 1, height |-> 1]]

\* a nodes value that is truthy and no array (a number, a string, an
\* object), written as a list of one thing that is no node
NotAnArray == <<[notAnArray |-> TRUE]>>

\* the graphs a caller builds and passes to loadGraph
GraphDocuments ==
  { [nodes |-> <<>>, edges |-> <<>>, config |-> DocumentConfig],
    [nodes |-> <<DocumentNode>>, edges |-> <<DocumentEdge>>,
     config |-> DocumentConfig] }

\* The files a user picks: text that is no JSON, JSON without some of the
\* keys, graphs, and JSON with the three keys whose nodes are no array.
ImportDocuments ==
  { [parses |-> FALSE, keys |-> {}, nodes |-> <<>>, edges |-> <<>>,
     config |-> DocumentConfig],
    [parses |-> TRUE, keys |-> {"nodes", "edges"}, nodes |-> <<DocumentNode>>,
     edges |-> <<>>, config |-> DocumentConfig],
    [parses |-> TRUE, keys |-> {"nodes", "edges", "config"}, nodes |-> NotAnArray,
     edges |-> <<>>, config |-> DocumentConfig] }
  \cup { [parses |-> TRUE, keys |-> {"nodes", "edges", "config"},
          nodes |-> g.nodes, edges |-> g.edges, config |-> g.config] :
           g \in GraphDocuments }

\* the store holds node and edge arrays
isGraph == \A i \in DOMAIN nodes : "id" \in DOMAIN nodes[i]

\* a caller's loadGraph(graph): the live arrays are the caller's
callLoadGraph(graph) ==
  LET g == loadGraph(graph)
  IN  /\ CommitWith(g.nodes, g.edges, <<>>, <<>>, NoAlias,
                    [undoStack |-> undoStack, redoStack |-> redoStack,
                     isUndoing |-> isUndoing, isRedoing |-> isRedoing], FALSE,
                    g.config)
      /\ Call("loadGraph", Null, "void", Null, "")
      /\ law' = NoLaw
      /\ UNCHANGED <<nextNodeId, nextEdgeId, run, selects>>

\* JSON.parse throws, or !graphData.nodes || !graphData.edges || !graphData.config
invalidDocument(doc) ==
  \/ ~doc.parses
  \/ {"nodes", "edges", "config"} \ doc.keys # {}

\* importGraphFromJSON's reader.onload: parse, validate, loadGraph and
\* clearHistory inside one try; the catch alerts.  With nodes that are no
\* array, clearSelection throws at the first selected node id (getNode calls
\* state.graph.nodes.find), after state.graph was assigned.
importGraphFromJSON(doc) ==
  IF invalidDocument(doc)
  THEN Rejected("importGraphFromJSON", Null, "alert", "Failed to import graph")
  ELSE IF doc.nodes = NotAnArray /\ selectedNodes # <<>>
  THEN /\ nodes' = doc.nodes
       /\ edges' = doc.edges
       /\ graphConfig' = config
       /\ alias' = NoAlias
       /\ exported' = syncExported(<<>>, NoAlias)
       /\ Call("importGraphFromJSON", Null, "alert", Null, "Failed to import graph")
       /\ law' = NoLaw
       /\ UNCHANGED <<selectedNodes, selectedEdges, undoStack, redoStack,
                      nextNodeId, nextEdgeId, nextActionId, run, selects,
                      isUndoing, isRedoing>>
  ELSE LET g == IF doc.nodes = NotAnArray
                THEN [nodes |-> doc.nodes,
                      edges |-> clearEdgeFlags(doc.edges, selectedEdges),
                      config |-> config]
                ELSE loadGraph(doc)
       IN  /\ CommitWith(g.nodes, g.edges, <<>>, <<>>, NoAlias,
                         [undoStack |-> <<>>, redoStack |-> <<>>,
                          isUndoing |-> isUndoing, isRedoing |-> isRedoing],
                         FALSE, g.config)
           /\ Call("importGraphFromJSON", Null, "void", Null, "")
           /\ law' = NoLaw
           /\ runReset
           /\ UNCHANGED <<nextNodeId, nextEdgeId, selects>>

\* A call of the store or of the editor leaves the canvas component alone.
Store(A) == A /\ UNCHANGED canvasVars

Init ==
  /\ nodes = <<>>
  /\ edges = <<>>
  /\ selectedNodes = <<>>
  /\ selectedEdges = <<>>
  /\ undoStack = <<>>
  /\ redoStack = <<>>
  /\ alias = NoAlias
  /\ nextNodeId = 1
  /\ nextEdgeId = 1
  /\ nextActionId = 1
  /\ call = [op |-> "usePFGraph", id |-> Null, ret |-> "void", new |-> Null,
             warn |-> ""]
  /\ law = NoLaw
  /\ run = [recs |-> 0, undos |-> 0, sinceUndo |-> "never"]
  /\ selects = 0
  /\ exported = NoExport
  /\ isUndoing = FALSE
  /\ isRedoing = FALSE
  /\ viewport = InitialViewport
  /\ edgeCreation = NoEdgeCreation
  /\ wheels = 0
  /\ graphConfig = config
  /\ isDragging = FALSE
  /\ dragNodeIds = <<>>
  /\ isPanning = FALSE
  /\ panStartPos = <<0, 0>>
  /\ panStartViewport = [x |-> Num(0), y |-> Num(0)]
  /\ minimapDrag = NoMinimapDrag

Next ==
  \/ Store(\E node \in NodeInputs : addNode(node))
  \/ Store(\E id \in SeqIds(nodes) : removeNode(id))
  \/ Store(\E id \in SeqIds(nodes), u \in NodeUpdates : updateNode(id, u))
  \/ Store(\E id \in SeqIds(nodes), k \in PropertyKeys, v \in PropertyValues : updateNodeProperty(id, k, v))
  \/ Store(\E id \in SeqIds(nodes), url \in ImageUrls : updateNodeImage(id, url))
  \/ Store(\E id \in SeqIds(nodes) \cup {nextNodeId} : duplicateNode(id))
  \/ Store(deleteSelectedNodes)
  \/ Store(\E edge \in EdgeInputs : addEdge(edge))
  \/ Store(\E id \in SeqIds(edges) : removeEdge(id))
  \/ Store(\E id \in SeqIds(nodes), m \in BOOLEAN : selectNode(id, m))
  \/ Store(undo)
  \/ Store(redo)

Spec == Init /\ [][Next]_vars

\* ------------------------------------------------- the editor and callers
\* updates without x and y
SilentUpdates ==
  { [has |-> {"title"}, x |-> 0, y |-> 0, title |-> "T", ports |-> <<>>] }

\* the mouse movement of one node-drag event
DragDeltas == {5}

\* PFGraphEditor.handleNodeDrag: node.x += deltaX, node.y += deltaY on the
\* node of the store's graph; drags stop at MaxX.
handleNodeDrag(nodeId, deltaX, deltaY) ==
  LET i == getNode(nodes, nodeId)
      ns1 == [nodes EXCEPT ![i].x = @ + deltaX, ![i].y = @ + deltaY]
  IN  /\ i # 0
      /\ nodes[i].x + deltaX <= MaxX
      /\ Commit(ns1, edges, selectedNodes, selectedEdges, alias,
                noRecord(ns1, edges, alias), FALSE)
      /\ Call("handleNodeDrag", nodeId, "void", Null, "")
      /\ startLaw("drag", ns1, edges)
      /\ UNCHANGED <<nextNodeId, nextEdgeId, run, selects>>

\* PFGraphEditor.handleNodesDrag: the same for every node of nodeIds
handleNodesDrag(nodeIds, deltaX, deltaY) ==
  LET ns1 == [i \in DOMAIN nodes |->
                IF nodes[i].id \in Range(nodeIds)
                THEN [nodes[i] EXCEPT !.x = @ + deltaX, !.y = @ + deltaY]
                ELSE nodes[i]]
  IN  /\ \A i \in DOMAIN nodes : ns1[i].x <= MaxX
      /\ Commit(ns1, edges, selectedNodes, selectedEdges, alias,
                noRecord(ns1, edges, alias), FALSE)
      /\ Call("handleNodesDrag", Null, "void", Null, "")
      /\ startLaw("drag", ns1, edges)
      /\ UNCHANGED <<nextNodeId, nextEdgeId, run, selects>>

\* handleMouseMove: while nodes are dragged, 'node-drag' or 'nodes-drag' with
\* the pointer's movement since the last event, handled by the editor.
handleMouseMove(deltaX, deltaY) ==
  /\ UNCHANGED canvasVars
  /\ IF isDragging /\ Len(dragNodeIds) > 0
     THEN IF Len(dragNodeIds) = 1
          THEN handleNodeDrag(dragNodeIds[1], deltaX, deltaY)
          ELSE handleNodesDrag(dragNodeIds, deltaX, deltaY)
     ELSE CanvasEvent("handleMouseMove", Null)

\* ------------------------------------------------------ pan and minimap
\* pointer positions of pan and minimap events, in pixels of the canvas and
\* of the minimap
PointerPositions == {<<0, 0>>, <<100, 60>>}

\* handleCanvasMouseDown on the empty canvas (event.target is the svg);
\* pans count as gestures with the wheel events.
handleCanvasMouseDown(clientX, clientY) ==
  /\ wheels < MaxWheels
  /\ wheels' = wheels + 1
  /\ isPanning' = TRUE
  /\ panStartPos' = <<clientX, clientY>>
  /\ panStartViewport' = [x |-> viewport.x, y |-> viewport.y]
  /\ UNCHANGED <<viewport, edgeCreation, dragVars, minimapDrag>>
  /\ CanvasEvent("handleCanvasMouseDown", Null)

\* a pan that moves the window with the pointer
pannedWithPointer(start, delta, canvas, extent) ==
  Plus(start, worldDelta(delta, canvas, extent))

\* viewport.x = panStartViewport.x - worldDeltaX
panned(start, delta, canvas, extent) ==
  Minus(start, worldDelta(delta, canvas, extent))

\* handleMouseMoveWithPanning: the pointer at (clientX, clientY), having
\* moved by (deltaX, deltaY) since the last event
handleMouseMoveWithPanning(clientX, clientY, deltaX, deltaY) ==
  IF isPanning
  THEN /\ viewport' =
            [viewport EXCEPT
               !.x = panned(panStartViewport.x, clientX - panStartPos[1],
                            canvasWidth, viewport.width),
               !.y = panned(panStartViewport.y, clientY - panStartPos[2],
                            canvasHeight, viewport.height)]
       /\ UNCHANGED <<edgeCreation, wheels, pointerVars>>
       /\ CanvasEvent("handleMouseMoveWithPanning", Null)
  ELSE handleMouseMove(deltaX, deltaY)

\* props.width and minimapHeight (props.height - 30) of the minimap, and the
\* padding of its view box
minimapWidth == 200
minimapHeight == 120
padding == 50

\* PFGraphEditor.graphBounds: the canvas when there is no node, else the
\* extent of the nodes, a node without width or height being 120 x 80
graphBounds ==
  LET right(n) == n.x + (IF n.width = 0 THEN 120 ELSE n.width)
      bottom(n) == n.y + (IF n.height = 0 THEN 80 ELSE n.height)
      I == DOMAIN nodes
  IN  IF Len(nodes) = 0
      THEN [minX |-> 0, minY |-> 0, maxX |-> canvasWidth, maxY |-> canvasHeight]
      ELSE [minX |-> nodes[CHOOSE i \in I : \A j \in I : nodes[i].x <= nodes[j].x].x,
            minY |-> nodes[CHOOSE i \in I : \A j \in I : nodes[i].y <= nodes[j].y].y,
            maxX |-> right(nodes[CHOOSE i \in I :
                                   \A j \in I : right(nodes[i]) >= right(nodes[j])]),
            maxY |-> bottom(nodes[CHOOSE i \in I :
                                    \A j \in I : bottom(nodes[i]) >= bottom(nodes[j])])]

viewBox ==
  [x |-> graphBounds.minX - padding, y |-> graphBounds.minY - padding,
   width |-> (graphBounds.maxX - graphBounds.minX) + padding * 2,
   height |-> (graphBounds.maxY - graphBounds.minY) + padding * 2]

\* a <= b for fractions
RatLeq(a, b) == Minus(a, b)[1] <= 0

\* scaledViewport: the rectangle of the viewport indicator
scaledViewport ==
  LET scaleX == Over(Num(minimapWidth), Num(viewBox.width))
      scaleY == Over(Num(minimapHeight), Num(viewBox.height))
      scaledWidth == Times(Over(viewport.width, viewport.scale), scaleX)
      scaledHeight == Times(Over(viewport.height, viewport.scale), scaleY)
  IN  [x |-> Times(Minus(viewport.x, Num(viewBox.x)), scaleX),
       y |-> Times(Minus(viewport.y, Num(viewBox.y)), scaleY),
       width |-> IF RatLeq(scaledWidth, Num(minimapWidth * 2))
                 THEN scaledWidth ELSE Num(minimapWidth * 2),
       height |-> IF RatLeq(scaledHeight, Num(minimapHeight * 2))
                  THEN scaledHeight ELSE Num(minimapHeight * 2)]

\* minimap pixels to graph coordinates: viewBox.x + (x / props.width) *
\* viewBox.width
graphPoint(pixel, size, origin, extent) ==
  Plus(Num(origin), Times(Over(Num(pixel), Num(size)), Num(extent)))

\* PFGraphEditor.handleViewportChange, called with the 'viewport-change' of
\* the minimap handler op: x and y, and scale when the request carries one
handleViewportChange(op, request) ==
  /\ viewport' = [viewport EXCEPT !.x = request.x, !.y = request.y,
                                  !.scale = IF request.hasScale THEN request.scale ELSE @]
  /\ UNCHANGED <<edgeCreation, dragVars, panVars>>
  /\ CanvasEvent(op, Null)

\* handleMinimapClick: centres the viewport on the clicked point
handleMinimapClick(x, y) ==
  IF minimapDrag.isDragging
  THEN /\ UNCHANGED canvasVars
       /\ CanvasEvent("handleMinimapClick", Null)
  ELSE /\ UNCHANGED <<minimapDrag, wheels>>
       /\ handleViewportChange("handleMinimapClick",
            [x |-> Minus(graphPoint(x, minimapWidth, viewBox.x, viewBox.width),
                         Over(Over(viewport.width, viewport.scale), Num(2))),
             y |-> Minus(graphPoint(y, minimapHeight, viewBox.y, viewBox.height),
                         Over(Over(viewport.height, viewport.scale), Num(2))),
             hasScale |-> TRUE, scale |-> viewport.scale])

\* handleMinimapMouseDown: a press inside viewportInMinimap starts a drag
handleMinimapMouseDown(x, y) ==
  LET left == Times(Over(Minus(viewport.x, Num(viewBox.x)), Num(viewBox.width)),
                    Num(minimapWidth))
      upper == Times(Over(Minus(viewport.y, Num(viewBox.y)), Num(viewBox.height)),
                     Num(minimapHeight))
      across == Times(Over(viewport.width, Num(viewBox.width)), Num(minimapWidth))
      down == Times(Over(viewport.height, Num(viewBox.height)), Num(minimapHeight))
      inside == /\ RatLeq(left, Num(x)) /\ RatLeq(Num(x), Plus(left, across))
                /\ RatLeq(upper, Num(y)) /\ RatLeq(Num(y), Plus(upper, down))
  IN  /\ minimapDrag' = IF inside THEN [minimapDrag EXCEPT !.isDragging = TRUE]
                        ELSE minimapDrag
      /\ UNCHANGED <<viewport, edgeCreation, wheels, dragVars, panVars>>
      /\ CanvasEvent("handleMinimapMouseDown", Null)

\* handleMinimapMouseMove: while dragging, centres the viewport on the pointer
handleMinimapMouseMove(x, y) ==
  IF ~minimapDrag.isDragging
  THEN /\ UNCHANGED canvasVars
       /\ CanvasEvent("handleMinimapMouseMove", Null)
  ELSE /\ UNCHANGED <<minimapDrag, wheels>>
       /\ handleViewportChange("handleMinimapMouseMove",
            [x |-> Minus(graphPoint(x, minimapWidth, viewBox.x, viewBox.width),
                         Over(viewport.width, Num(2))),
             y |-> Minus(graphPoint(y, minimapHeight, viewBox.y, viewBox.height),
                         Over(viewport.height, Num(2))),
             hasScale |-> FALSE, scale |-> viewport.scale])

\* handleMinimapMouseUp, for mouseup and mouseleave of the minimap
handleMinimapMouseUp ==
  /\ minimapDrag' = [minimapDrag EXCEPT !.isDragging = FALSE]
  /\ UNCHANGED <<viewport, edgeCreation, wheels, dragVars, panVars>>
  /\ CanvasEvent("handleMinimapMouseUp", Null)

\* handleViewportMouseDown, a press on the viewport indicator: adds the
\* document's mousemove and mouseup listeners; these drags count as gestures.
handleViewportMouseDown ==
  /\ wheels < MaxWheels
  /\ wheels' = wheels + 1
  /\ minimapDrag' = [isDragging |-> TRUE, listening |-> TRUE,
                     startViewport |-> [x |-> viewport.x, y |-> viewport.y]]
  /\ UNCHANGED <<viewport, edgeCreation, dragVars, panVars>>
  /\ CanvasEvent("handleViewportMouseDown", Null)

\* the document's mousemove listener of handleViewportMouseDown
viewportDragMove(deltaX, deltaY) ==
  /\ minimapDrag.listening
  /\ UNCHANGED <<minimapDrag, wheels>>
  /\ handleViewportChange("handleViewportMouseDown.handleMouseMove",
       [x |-> Plus(minimapDrag.startViewport.x,
                   Times(Num(deltaX), Over(Num(viewBox.width), Num(minimapWidth)))),
        y |-> Plus(minimapDrag.startViewport.y,
                   Times(Num(deltaY), Over(Num(viewBox.height), Num(minimapHeight)))),
        hasScale |-> TRUE, scale |-> viewport.scale])

\* the document's mouseup listener of handleViewportMouseDown
viewportDragUp ==
  /\ minimapDrag.listening
  /\ minimapDrag' = [minimapDrag EXCEPT !.isDragging = FALSE, !.listening = FALSE]
  /\ UNCHANGED <<viewport, edgeCreation, wheels, dragVars, panVars>>
  /\ CanvasEvent("handleViewportMouseDown.handleMouseUp", Null)

\* loadGraph(exportGraph()): the live arrays and node objects are the fresh
\* ones of the export; the properties objects stay those of the old nodes.
roundTrip ==
  LET g == loadGraph(exportGraph(nodes, edges))
      al == IF alias.side = "none" THEN alias
            ELSE [alias EXCEPT
                    !.side = IF @ \in {"before", "beforeProperties"}
                             THEN "beforeProperties" ELSE "afterProperties",
                    !.edgesArr = FALSE]
  IN  /\ CommitWith(g.nodes, g.edges, <<>>, <<>>, al,
                [undoStack |-> undoStack, redoStack |-> redoStack,
                 isUndoing |-> isUndoing, isRedoing |-> isRedoing], FALSE,
                g.config)
      /\ Call("loadGraph(exportGraph())", Null, "void", Null, "")
      /\ law' = NoLaw
      /\ UNCHANGED <<nextNodeId, nextEdgeId, run, selects>>

\* A caller takes exportGraph() and keeps the graph it returned.
callExportGraph ==
  /\ ~exported.held
  /\ exported' =
       [held |-> TRUE, graph |-> exportGraph(nodes, edges),
        asReturned |-> exportGraph(nodes, edges),
        shared |-> {nodes[i].id : i \in {k \in DOMAIN nodes : nodes[k].properties.def}}]
  /\ Call("exportGraph", Null, "graph", Null, "")
  /\ law' = NoLaw
  /\ UNCHANGED <<nodes, edges, selectedNodes, selectedEdges, undoStack,
                 redoStack, alias, nextNodeId, nextEdgeId, nextActionId, run,
                 selects, isUndoing, isRedoing, graphConfig>>

\* A step of the editor and caller behaviours: at most MaxEditorActions
\* actions are recorded in one behaviour.
Within(A) == A /\ nextActionId' <= MaxEditorActions + 1

\* The store driven by the editor: updates with and without a position,
\* unknown ids, node drags.
NextEditor ==
  \/ Store(Within(\E node \in NodeInputs : addNode(node)))
  \/ Store(Within(\E edge \in EdgeInputs : addEdge(edge)))
  \/ Store(Within(\E id \in SeqIds(nodes) \cup {nextNodeId}, u \in NodeUpdates \cup SilentUpdates : updateNode(id, u)))
  \/ Store(\E id \in {nextEdgeId} : removeEdge(id))
  \/ Store(\E id \in SeqIds(nodes), d \in DragDeltas : handleNodeDrag(id, d, d))
  \/ Store(undo)
  \/ Store(redo)

SpecEditor == Init /\ [][NextEditor]_vars

\* The store driven by a caller that exports and loads graphs.
NextCaller ==
  \/ Store(Within(\E node \in NodeInputs : addNode(node)))
  \/ Store(Within(\E edge \in EdgeInputs : addEdge(edge)))
  \/ Store(Within(\E id \in SeqIds(nodes), k \in PropertyKeys, v \in PropertyValues : updateNodeProperty(id, k, v)))
  \/ Store(\E id \in SeqIds(nodes), m \in BOOLEAN : selectNode(id, m))
  \/ Store(roundTrip)
  \/ Store(callExportGraph)
  \/ Store(undo)
  \/ Store(redo)

SpecCaller == Init /\ [][NextCaller]_vars

\* The editor driven through its canvas: wheel, node drag, edge creation.
NextCanvas ==
  \/ Store(Within(\E node \in NodeInputs : addNode(node)))
  \/ \E cursor \in WheelCursors, deltaY \in WheelDeltas :
       handleWheel(cursor[1], cursor[2], deltaY)
  \/ \E id \in SeqIds(nodes) : handleNodeMouseDown(id)
  \/ \E d \in DragDeltas : handleMouseMove(d, d)
  \/ \E port \in DrawnPorts : handlePortMouseDown(port[1], port[2], port[3])
  \/ Within(\E port \in DrawnPorts : handlePortMouseUp(port[1], port[2], port[3]))
  \/ Within(\E port \in DrawnPorts : handlePortClick(port[1], port[2]))
  \/ handleMouseUpWithPanning
  \/ handleMouseLeave
  \/ \E modifier \in BOOLEAN : handleCanvasClick(modifier)

SpecCanvas == Init /\ [][NextCanvas]_vars

\* The viewport driven by the wheel, by pans and through the minimap.
NextViewport ==
  \/ Store(Within(\E node \in NodeInputs : addNode(node)))
  \/ \E pos \in PointerPositions, deltaY \in WheelDeltas :
       handleWheel(pos[1], pos[2], deltaY)
  \/ \E pos \in PointerPositions : handleCanvasMouseDown(pos[1], pos[2])
  \/ \E pos \in PointerPositions, d \in DragDeltas :
       handleMouseMoveWithPanning(pos[1], pos[2], d, d)
  \/ handleMouseUpWithPanning
  \/ \E pos \in PointerPositions : handleMinimapClick(pos[1], pos[2])
  \/ \E pos \in PointerPositions : handleMinimapMouseDown(pos[1], pos[2])
  \/ \E pos \in PointerPositions : handleMinimapMouseMove(pos[1], pos[2])
  \/ handleMinimapMouseUp
  \/ handleViewportMouseDown
  \/ \E pos \in PointerPositions : viewportDragMove(pos[1], pos[2])
  \/ viewportDragUp

SpecViewport == Init /\ [][NextViewport]_vars

\* The editor's Clear and Import buttons and a caller's loadGraph; once the
\* store holds nodes that are no array, no operation of the model applies.
NextImport ==
  \/ Store(isGraph /\ Within(\E node \in NodeInputs : addNode(node)))
  \/ Store(isGraph /\ Within(\E edge \in EdgeInputs : addEdge(edge)))
  \/ Store(isGraph /\ \E id \in SeqIds(nodes), m \in BOOLEAN : selectNode(id, m))
  \/ Store(isGraph /\ \E graph \in GraphDocuments : callLoadGraph(graph))
  \/ Store(isGraph /\ clearGraph)
  \/ Store(isGraph /\ editorClearGraph)
  \/ Store(isGraph /\ \E doc \in ImportDocuments : importGraphFromJSON(doc))
  \/ Store(isGraph /\ undo)
  \/ Store(isGraph /\ redo)

SpecImport == Init /\ [][NextImport]_vars

\* The store given node data of every kind.
NextPorts ==
  \/ Store(Within(\E node \in NodeInputs \cup PortNodeInputs : addNode(node)))
  \/ Store(Within(\E id \in SeqIds(nodes) : duplicateNode(id)))
  \/ Store(\E id \in SeqIds(nodes), m \in BOOLEAN : selectNode(id, m))
  \/ Store(undo)
  \/ Store(redo)

SpecPorts == Init /\ [][NextPorts]_vars

\* The store's operations on the structure of the graph and on the
\* selection, with ids of the graph and ids that are not in it, and the
\* editor's Clear.
NextGraph ==
  \/ Store(\E node \in NodeInputs : addNode(node))
  \/ Store(\E id \in SeqIds(nodes) : removeNode(id))
  \/ Store(\E id \in SeqIds(nodes) : duplicateNode(id))
  \/ Store(deleteSelectedNodes)
  \/ Store(\E edge \in EdgeInputs : addEdge(edge))
  \/ Store(\E id \in SeqIds(edges) : removeEdge(id))
  \/ Store(\E id \in SeqIds(nodes) \cup {nextNodeId}, m \in BOOLEAN : selectNode(id, m))
  \/ Store(\E id \in SeqIds(edges) \cup {nextEdgeId}, m \in BOOLEAN : selectEdge(id, m))
  \/ Store(clearGraph)
  \/ Store(editorClearGraph)
  \/ Store(undo)
  \/ Store(redo)

SpecGraph == Init /\ [][NextGraph]_vars

\* ================================================================ claims
\* the port of the graph an edge end names: 0 when the node or the port is
\* not there
portAt(ns, nodeId, pid) ==
  IF getNode(ns, nodeId) = 0 THEN 0 ELSE findPort(ns[getNode(ns, nodeId)], pid)

portTypeAt(ns, nodeId, pid) ==
  IF portAt(ns, nodeId, pid) = 0 THEN "missing"
  ELSE ns[getNode(ns, nodeId)].ports[portAt(ns, nodeId, pid)].type

\* C1 (as claimed): in every reachable graph state, each edge's source and
\* target node ids name a node of the graph and its source and target port
\* ids name a port of that node.
C1_ReferentialIntegrity ==
  \A i \in DOMAIN edges :
    /\ portAt(nodes, edges[i].sourceNodeId, edges[i].sourcePortId) # 0
    /\ portAt(nodes, edges[i].targetNodeId, edges[i].targetPortId) # 0

\* C2 (as claimed): undo() right after a recorded operation yields the graph
\* as it was just before the operation, and redo() right after that undo
\* yields the graph as it was just after the operation (selected flags,
\* which are transient, left aside).
C2_UndoRedoInverse ==
  /\ law.phase = "undone" => exportGraph(nodes, edges) = law.before
  /\ law.phase = "redone" => exportGraph(nodes, edges) = law.after

\* C3 (as claimed): the beforeState and afterState of an action never change
\* while the action is in a stack, whatever call is made.
C3_SnapshotsImmutable ==
  [][\A i \in DOMAIN undoStack \cup DOMAIN redoStack :
       \A a \in {undoStack[k] : k \in DOMAIN undoStack \cap {i}}
                  \cup {redoStack[k] : k \in DOMAIN redoStack \cap {i}} :
         \A j \in DOMAIN undoStack' \cup DOMAIN redoStack' :
           \A b \in {undoStack'[k] : k \in DOMAIN undoStack' \cap {j}}
                      \cup {redoStack'[k] : k \in DOMAIN redoStack' \cap {j}} :
             a.id = b.id =>
               /\ a.beforeState = b.beforeState
               /\ a.afterState = b.afterState]_vars

\* C4 (as claimed): in every reachable graph state, the port an edge's
\* sourcePortId names on its source node is an output port and the port its
\* targetPortId names on its target node is an input port.
C4_EdgePolarity ==
  \A i \in DOMAIN edges :
    /\ portTypeAt(nodes, edges[i].sourceNodeId, edges[i].sourcePortId) = "output"
    /\ portTypeAt(nodes, edges[i].targetNodeId, edges[i].targetPortId) = "input"

\* what a rejected call leaves alone
Frame == <<nodes, edges, selectedNodes, selectedEdges, undoStack, redoStack>>

\* C5: when the node count equals maxNodes, addNode returns null and leaves
\* nodes, edges, selection and both stacks unchanged; when the edge count
\* equals maxEdges, addEdge returns null and leaves them unchanged.
C5_CapEnforcement ==
  [][/\ (call'.op = "addNode" /\ Len(nodes) = maxNodes)
          => (call'.ret = "null" /\ UNCHANGED Frame)
     /\ (call'.op = "addEdge" /\ Len(edges) = maxEdges)
          => (call'.ret = "null" /\ UNCHANGED Frame)]_vars

C5_Witness ==
  /\ call.op = "addEdge"
  /\ call.ret = "null"
  /\ call.warn = "maximum edges reached"
  /\ Len(edges) = maxEdges
  /\ Len(undoStack) > 0

\* the checks the claim lists, on the graph as it is
sameTuple(e, edge) ==
  /\ e.sourceNodeId = edge.sourceNodeId
  /\ e.sourcePortId = edge.sourcePortId
  /\ e.targetNodeId = edge.targetNodeId
  /\ e.targetPortId = edge.targetPortId

ChecksPass(edge) ==
  /\ Len(edges) < maxEdges
  /\ edge.sourceNodeId \in SeqIds(nodes)
  /\ edge.targetNodeId \in SeqIds(nodes)
  /\ portTypeAt(nodes, edge.sourceNodeId, edge.sourcePortId) = "output"
  /\ portTypeAt(nodes, edge.targetNodeId, edge.targetPortId) = "input"
  /\ \A i \in DOMAIN edges : ~sameTuple(edges[i], edge)

stackIds(stack) == [i \in DOMAIN stack |-> stack[i].id]

\* C6: an addEdge that returns null changes nothing; an addEdge that appends
\* an edge appends exactly one, passed every check on the graph as it was,
\* and records exactly one 'add_edge' action.
C6_RejectedAddEdgeAppliesNothing ==
  [][call'.op = "addEdge" =>
       IF call'.ret = "null"
       THEN UNCHANGED Frame
       ELSE /\ Len(edges') = Len(edges) + 1
            /\ SubSeq(edges', 1, Len(edges)) = edges
            /\ edges'[Len(edges')].id \notin SeqIds(edges)
            /\ ChecksPass(edges'[Len(edges')])
            /\ UNCHANGED <<nodes, selectedNodes, selectedEdges>>
            /\ stackIds(undoStack') =
                 IF Len(undoStack) < maxStackSize
                 THEN Append(stackIds(undoStack), nextActionId)
                 ELSE Append(Tail(stackIds(undoStack)), nextActionId)
            /\ undoStack'[Len(undoStack')].type = "add_edge"
            /\ redoStack' = <<>>
            /\ nextActionId' = nextActionId + 1]_vars

C6_Witness ==
  /\ call.op = "addEdge"
  /\ call.ret = "null"
  /\ call.warn = "must connect output port to input port"
  /\ Len(nodes) > 0

\* C7: no two edges of the graph have the same four ids, and an addEdge
\* appends an edge only when no edge of the graph has its four ids.
C7_NoDuplicateEdges ==
  [][/\ \A i, j \in DOMAIN edges' :
          sameTuple(edges'[i], edges'[j]) => i = j
     /\ (call'.op = "addEdge" /\ call'.ret # "null") =>
          \A i \in DOMAIN edges : ~sameTuple(edges[i], edges'[Len(edges')])
     /\ (call'.op = "addEdge"
           /\ call'.warn = "Edge already exists between these ports") =>
          (call'.ret = "null" /\ edges' = edges)]_vars

C7_Witness ==
  /\ call.op = "addEdge"
  /\ call.ret = "null"
  /\ call.warn = "Edge already exists between these ports"
  /\ Len(edges) < maxEdges

\* C8: removeNode(id) on a node of the graph removes the node and every edge
\* whose source or target node is id and records exactly one 'remove_node'
\* action; one undo() right after it restores the node and the edges.
notOf(id, e) == e.sourceNodeId # id /\ e.targetNodeId # id

C9_HistoryBound ==
  /\ Len(undoStack) <= maxStackSize
  /\ run.recs > maxStackSize => Len(undoStack) = maxStackSize - run.undos
  /\ (call.op = "undo" /\ call.ret = "false") => undoStack = <<>>
  /\ (call.op = "undo" /\ call.ret = "true") => run.undos >= 1

C9_Witness ==
  /\ run.recs > maxStackSize
  /\ run.undos = maxStackSize
  /\ call.op = "undo"
  /\ call.ret = "false"

\* C10: right after a recorded operation the redo stack is empty, so redo()
\* returns no action; redo() succeeds only when no action was recorded since
\* the last undo().
C10_LinearTimeline ==
  /\ law.phase = "op" => (redoStack = <<>> /\ ~canRedo)
  /\ (call.op = "redo" /\ run.sinceUndo = "recorded") => call.ret = "false"
  /\ (call.op = "redo" /\ call.ret = "true") => run.sinceUndo = "nothing"

C10_Witness ==
  /\ call.op = "redo"
  /\ call.ret = "false"
  /\ run.sinceUndo = "recorded"
  /\ Len(undoStack) > 0

\* C11: no action is in both stacks; undo() moves exactly the top action of
\* the undo stack onto the redo stack and redo() moves exactly the top action
\* of the redo stack onto the undo stack, the other actions keeping their
\* stack and their order.
C11_ActionOwnership ==
  [][/\ SeqIds(undoStack') \cap SeqIds(redoStack') = {}
     /\ Len(undoStack') = Cardinality(SeqIds(undoStack'))
     /\ Len(redoStack') = Cardinality(SeqIds(redoStack'))
     /\ (call'.op = "undo" /\ call'.ret = "true") =>
          /\ undoStack # <<>>
          /\ stackIds(undoStack') = pop(stackIds(undoStack))
          /\ stackIds(redoStack') =
               Append(stackIds(redoStack), top(stackIds(undoStack)))
     /\ (call'.op = "redo" /\ call'.ret = "true") =>
          /\ redoStack # <<>>
          /\ stackIds(redoStack') = pop(stackIds(redoStack))
          /\ stackIds(undoStack') =
               Append(stackIds(undoStack), top(stackIds(redoStack)))]_vars

C11_Witness ==
  /\ call.op = "redo"
  /\ call.ret = "true"
  /\ Len(undoStack) = 1
  /\ Len(redoStack) = 1

\* C12: undo() on an empty undo stack and redo() on an empty redo stack
\* return false and leave graph, selection and stacks unchanged; undo()
\* succeeds exactly when the undo stack holds an action, redo() exactly when
\* the redo stack does, and canUndo / canRedo say so.
C12_EmptyStackNoOp ==
  [][/\ call'.op = "undo" =>
          /\ call'.ret = "true" <=> undoStack # <<>>
          /\ undoStack = <<>> => (call'.ret = "false" /\ UNCHANGED Frame)
     /\ call'.op = "redo" =>
          /\ call'.ret = "true" <=> redoStack # <<>>
          /\ redoStack = <<>> => (call'.ret = "false" /\ UNCHANGED Frame)
     /\ canUndo <=> undoStack # <<>>
     /\ canRedo <=> redoStack # <<>>]_vars

C12_Witness ==
  /\ call.op = "undo"
  /\ call.ret = "false"
  /\ undoStack = <<>>
  /\ redoStack # <<>>

\* C16 (as claimed): every beforeState and afterState held in the undo or the
\* redo stack has selected = false on each of its nodes and edges.
unselected(g) ==
  /\ \A i \in DOMAIN g.nodes : ~g.nodes[i].selected
  /\ \A i \in DOMAIN g.edges : ~g.edges[i].selected

C16_SelectionNeverHistoried ==
  /\ unselected(exportGraph(nodes, edges))
  /\ \A i \in DOMAIN undoStack :
       unselected(undoStack[i].beforeState) /\ unselected(undoStack[i].afterState)
  /\ \A i \in DOMAIN redoStack :
       unselected(redoStack[i].beforeState) /\ unselected(redoStack[i].afterState)

C13_RemoveEdgeUnknownId ==
  [][(call'.op = "removeEdge" /\ call'.id \notin SeqIds(edges)) =>
       /\ UNCHANGED Frame
       /\ nextActionId' = nextActionId]_vars

C13_Witness ==
  /\ call.op = "removeEdge"
  /\ call.id \notin SeqIds(edges)
  /\ Len(edges) > 0
  /\ Len(undoStack) > 0

\* C14: loadGraph(exportGraph()) leaves the store with the nodes and the
\* edges it had, in the same order, every selected flag false.
C14_RoundTrip ==
  [][call'.op = "loadGraph(exportGraph())" =>
       /\ nodes' = [i \in DOMAIN nodes |-> [nodes[i] EXCEPT !.selected = FALSE]]
       /\ edges' = [i \in DOMAIN edges |-> [edges[i] EXCEPT !.selected = FALSE]]]_vars

C14_Witness ==
  /\ call.op = "loadGraph(exportGraph())"
  /\ Len(nodes) > 0
  /\ Len(edges) > 0
  /\ selects > 0
  /\ Len(undoStack) > 0

\* C15 (as claimed): the graph exportGraph() returned stays as it was
\* returned, whatever the store does afterwards.
C15_ExportIsDeepCopy ==
  exported.held => exported.graph = exported.asReturned

\* C17 (as claimed): updateNode on an unknown id returns false and changes
\* nothing; on a node of the graph it merges the fields, and it records
\* exactly one 'move_node' action when the update holds x or y and leaves
\* both stacks unchanged otherwise.
C17_UpdateNodeHistoryPolicy ==
  [][call'.op = "updateNode" =>
       \A u \in NodeUpdates \cup SilentUpdates :
         updateNode(call'.id, u) =>
           IF call'.id \notin SeqIds(nodes)
           THEN call'.ret = "false" /\ UNCHANGED Frame
           ELSE /\ call'.ret = "true"
                /\ nodes' = [nodes EXCEPT ![getNode(nodes, call'.id)] = assign(@, u)]
                /\ IF "x" \in u.has \/ "y" \in u.has
                   THEN /\ stackIds(undoStack') =
                             IF Len(undoStack) < maxStackSize
                             THEN Append(stackIds(undoStack), nextActionId)
                             ELSE Append(Tail(stackIds(undoStack)), nextActionId)
                        /\ top(undoStack').type = "move_node"
                        /\ nextActionId' = nextActionId + 1
                   ELSE UNCHANGED <<undoStack, redoStack>>]_vars

\* C18 (as claimed): after a node is dragged in the editor, undo() puts the
\* graph back as it was before the drag and redo() puts it as the drag left it.
C18_NodeMovesUndoable ==
  law.kind = "drag" =>
    /\ law.phase = "undone" => exportGraph(nodes, edges) = law.before
    /\ law.phase = "redone" => exportGraph(nodes, edges) = law.after

\* C19: duplicateNode on an unknown id or at the node cap returns null and
\* leaves graph, selection and stacks unchanged; otherwise it appends exactly
\* one node, titled with ' (Copy)' added, 20 further in x and in y, with a new
\* node id and new port ids, leaves the edges unchanged and pushes exactly
\* one action, of type 'duplicate_node', on the undo stack.
C19_DuplicateNode ==
  [][call'.op = "duplicateNode" =>
       IF call'.id \notin SeqIds(nodes) \/ Len(nodes) >= maxNodes
       THEN call'.ret = "null" /\ UNCHANGED Frame /\ nextActionId' = nextActionId
       ELSE LET original == nodes[getNode(nodes, call'.id)]
                copy == nodes'[Len(nodes')]
            IN  /\ call'.ret = "id"
                /\ Len(nodes') = Len(nodes) + 1
                /\ SubSeq(nodes', 1, Len(nodes)) = nodes
                /\ copy.id = call'.new
                /\ copy.id \notin SeqIds(nodes)
                /\ copy.title = original.title \o " (Copy)"
                /\ copy.x = original.x + 20
                /\ copy.y = original.y + 20
                /\ Len(copy.ports) = Len(original.ports)
                /\ \A i \in DOMAIN copy.ports :
                     /\ copy.ports[i].id \notin SeqIds(original.ports)
                     /\ copy.ports[i].type = original.ports[i].type
                /\ Cardinality(SeqIds(copy.ports)) = Len(copy.ports)
                /\ edges' = edges
                /\ stackIds(undoStack') =
                     IF Len(undoStack) < maxStackSize
                     THEN Append(stackIds(undoStack), nextActionId)
                     ELSE Append(Tail(stackIds(undoStack)), nextActionId)
                /\ top(undoStack').type = "duplicate_node"
                /\ nextActionId' = nextActionId + 1]_vars

C19_Witness ==
  /\ call.op = "duplicateNode"
  /\ call.ret = "id"
  /\ Len(edges) > 0
  /\ Len(nodes) = maxNodes
  /\ top(undoStack).type = "duplicate_node"

\* C25: undo() and redo() record no action: the two stacks hold the same
\* actions, as many, before and after each call, and no action id is used;
\* between operations isUndoing and isRedoing are both false.
C25_ReplayGuard ==
  [][/\ call'.op \in {"undo", "redo"} =>
          /\ Len(undoStack') + Len(redoStack') = Len(undoStack) + Len(redoStack)
          /\ SeqIds(undoStack') \cup SeqIds(redoStack')
               = SeqIds(undoStack) \cup SeqIds(redoStack)
          /\ nextActionId' = nextActionId
     /\ ~isUndoing /\ ~isRedoing
     /\ ~isUndoing' /\ ~isRedoing']_vars

C25_Witness ==
  /\ call.op = "undo"
  /\ call.ret = "true"
  /\ Len(redoStack) = maxStackSize
  /\ ~isUndoing

\* the world point under a cursor: x + (cursorX / canvasWidth) * width
worldPoint(corner, cursor, canvas, extent) ==
  Plus(corner, Times(Over(Num(cursor), Num(canvas)), extent))

\* C26: for every wheel step at every cursor position, the world point under
\* the cursor before the step is the world point under it after the step;
\* zooming in divides width and height by 1.1 and multiplies scale by 1.1,
\* zooming out does the inverse.
C26_CursorAnchoredZoom ==
  [][call'.op = "handleWheel" =>
       \A cursor \in WheelCursors, deltaY \in WheelDeltas :
         handleWheel(cursor[1], cursor[2], deltaY) =>
           /\ worldPoint(viewport'.x, cursor[1], canvasWidth, viewport'.width)
                = worldPoint(viewport.x, cursor[1], canvasWidth, viewport.width)
           /\ worldPoint(viewport'.y, cursor[2], canvasHeight, viewport'.height)
                = worldPoint(viewport.y, cursor[2], canvasHeight, viewport.height)
           /\ IF deltaY < 0
              THEN /\ Times(viewport'.width, Num(11)) = Times(viewport.width, Num(10))
                   /\ Times(viewport'.height, Num(11)) = Times(viewport.height, Num(10))
                   /\ Times(viewport'.scale, Num(10)) = Times(viewport.scale, Num(11))
              ELSE /\ Times(viewport'.width, Num(10)) = Times(viewport.width, Num(11))
                   /\ Times(viewport'.height, Num(10)) = Times(viewport.height, Num(11))
                   /\ Times(viewport'.scale, Num(11)) = Times(viewport.scale, Num(10))]_vars

C26_Witness ==
  /\ call.op = "handleWheel"
  /\ wheels = MaxWheels
  /\ viewport.scale = Times(zoomFactor, zoomFactor)
  /\ viewport.x # Num(0)
  /\ viewport.x[2] # 1

\* C27 (as claimed): the distance a pointer move adds to a dragged node's x
\* and y is the pointer's movement in pixels converted to world units,
\* pixels * viewport.width / canvasWidth and pixels * viewport.height /
\* canvasHeight.
C27_DragInWorldUnits ==
  [][call'.op = "handleNodeDrag" =>
       \A d \in DragDeltas :
         handleMouseMove(d, d) =>
           LET i == getNode(nodes, call'.id)
           IN  /\ Num(nodes'[i].x - nodes[i].x)
                    = worldDelta(d, canvasWidth, viewport.width)
               /\ Num(nodes'[i].y - nodes[i].y)
                    = worldDelta(d, canvasHeight, viewport.height)]_vars

\* C28 (as claimed): while an edge creation is in progress, a release of the
\* pointer that reaches the canvas, a release on a port that is not an input
\* port, a canvas click and the pointer leaving the canvas each leave the
\* edge creation inactive with empty source ids, and add no edge.
C28_EdgeCreationCancelled ==
  [][edgeCreation.active =>
       /\ call'.op \in {"handleMouseUp", "handleCanvasClick", "handleMouseLeave"} =>
            /\ edgeCreation' = ResetEdgeCreation
            /\ edges' = edges
       /\ \A port \in DrawnPorts :
            (port[3] # "input" /\ handlePortMouseUp(port[1], port[2], port[3])) =>
              /\ ~edgeCreation'.active
              /\ edgeCreation'.fromNodeId = Null
              /\ edgeCreation'.fromPortId = ""
              /\ edges' = edges]_vars

\* C29 (as claimed): a node's selected flag is true exactly when its id is in
\* selectedNodes and an edge's exactly when its id is in selectedEdges;
\* selectNode(id, false) leaves the selection equal to {id} and
\* selectNode(id, true) adds id and removes nothing.
C29_SelectionMirror ==
  [][/\ \A i \in DOMAIN nodes' :
          nodes'[i].selected <=> nodes'[i].id \in Range(selectedNodes')
     /\ \A i \in DOMAIN edges' :
          edges'[i].selected <=> edges'[i].id \in Range(selectedEdges')
     /\ call'.op = "selectNode" =>
          \A m \in BOOLEAN :
            selectNode(call'.id, m) =>
              IF m THEN Range(selectedNodes') = Range(selectedNodes) \cup {call'.id}
              ELSE selectedNodes' = <<call'.id>>]_vars

\* C21: loadGraph(graph) leaves the store with the nodes and edges of graph
\* and no others, records no action and leaves both history stacks and the
\* store's config as they were.
C21_LoadGraphFrame ==
  [][call'.op = "loadGraph" =>
       \A graph \in GraphDocuments :
         callLoadGraph(graph) =>
           /\ nodes' = graph.nodes
           /\ edges' = graph.edges
           /\ UNCHANGED <<undoStack, redoStack>>
           /\ nextActionId' = nextActionId
           /\ graphConfig' = graphConfig
           /\ graphConfig' = config]_vars

C21_Witness ==
  /\ call.op = "loadGraph"
  /\ nodes = <<DocumentNode>>
  /\ Len(undoStack) > 0
  /\ Len(redoStack) > 0
  /\ \E i \in DOMAIN redoStack : Len(redoStack[i].afterState.nodes) = 2

\* C22 (as claimed): clearGraph, the store's and the editor's, leaves no
\* node, no edge and an empty selection, and both history stacks as they
\* were.
C22_ClearGraph ==
  [][call'.op \in {"clearGraph", "PFGraphEditor.clearGraph"} =>
       /\ nodes' = <<>>
       /\ edges' = <<>>
       /\ selectedNodes' = <<>>
       /\ selectedEdges' = <<>>
       /\ UNCHANGED <<undoStack, redoStack>>]_vars

\* C23 (as claimed): an import of a document that does not parse or lacks one
\* of nodes, edges, config changes nothing; an import of any other document
\* leaves the document's nodes and edges as the graph and both history
\* stacks empty.
C23_ImportAllOrNothing ==
  [][call'.op = "importGraphFromJSON" =>
       \A doc \in ImportDocuments :
         importGraphFromJSON(doc) =>
           IF ~doc.parses \/ {"nodes", "edges", "config"} \ doc.keys # {}
           THEN UNCHANGED Frame
           ELSE /\ nodes' = doc.nodes
                /\ edges' = doc.edges
                /\ undoStack' = <<>>
                /\ redoStack' = <<>>]_vars

\* C24 (as claimed): addNode below the cap appends exactly one node with a new
\* id, every port of it has an id, the ports given without one a new one, its
\* width and height are those of the input or, when the input has none,
\* config.nodeDefaults; it records exactly one 'add_node' action.
C24_AddNode ==
  [][(call'.op = "addNode" /\ Len(nodes) < maxNodes) =>
       \A node \in NodeInputs \cup PortNodeInputs :
         addNode(node) =>
           LET new == nodes'[Len(nodes')]
           IN  /\ Len(nodes') = Len(nodes) + 1
               /\ SubSeq(nodes', 1, Len(nodes)) = nodes
               /\ new.id = call'.new
               /\ new.id \notin SeqIds(nodes)
               /\ Len(new.ports) = Len(node.ports)
               /\ \A i \in DOMAIN new.ports :
                    /\ new.ports[i].id # ""
                    /\ node.ports[i].id # "" => new.ports[i].id = node.ports[i].id
                    /\ node.ports[i].id = "" =>
                         \A j \in DOMAIN new.ports : j # i => new.ports[j].id # new.ports[i].id
               /\ new.width = IF node.width = 0
                              THEN config.nodeDefaults.width ELSE node.width
               /\ new.height = IF node.height = 0
                               THEN config.nodeDefaults.height ELSE node.height
               /\ stackIds(undoStack') =
                    IF Len(undoStack) < maxStackSize
                    THEN Append(stackIds(undoStack), nextActionId)
                    ELSE Append(Tail(stackIds(undoStack)), nextActionId)
               /\ top(undoStack').type = "add_node"
               /\ nextActionId' = nextActionId + 1]_vars

\* C30 (as claimed): no node of the graph has two ports with the same id.
C30_PortIdsUnique ==
  \A i \in DOMAIN nodes :
    Cardinality(SeqIds(nodes[i].ports)) = Len(nodes[i].ports)

\* C31 (as claimed): addEdge only joins ports of different nodes: no edge of
\* the graph has its sourceNodeId equal to its targetNodeId.
C31_NoSelfEdges ==
  \A i \in DOMAIN edges : edges[i].sourceNodeId # edges[i].targetNodeId

\* C38 (as claimed): a release of the pointer inside the canvas, on the
\* background, on a node or on a port of either type, leaves isDragging false
\* and dragNodeIds empty, and the pointer move after it moves no node.
C38_ReleaseEndsDrag ==
  [][/\ call'.op \in {"handleMouseUp", "handlePortMouseUp"} =>
          (~isDragging' /\ dragNodeIds' = <<>>)
     /\ (call.op \in {"handleMouseUp", "handlePortMouseUp"}
           /\ call'.op \in {"handleNodeDrag", "handleNodesDrag", "handleMouseMove"})
          => nodes' = nodes]_vars

\* C32 (as claimed): at every zoom level the rectangle of the viewport
\* indicator is the viewport's x, y, width and height mapped by the scale that
\* maps the padded bounding box of the graph onto the minimap; and a click of
\* the minimap at a world point makes that point the centre of the viewport's
\* world rectangle.
C32_MinimapProjection ==
  [][/\ scaledViewport =
          [x |-> Times(Minus(viewport.x, Num(viewBox.x)),
                       Over(Num(minimapWidth), Num(viewBox.width))),
           y |-> Times(Minus(viewport.y, Num(viewBox.y)),
                       Over(Num(minimapHeight), Num(viewBox.height))),
           width |-> Times(viewport.width,
                           Over(Num(minimapWidth), Num(viewBox.width))),
           height |-> Times(viewport.height,
                            Over(Num(minimapHeight), Num(viewBox.height)))]
     /\ (call'.op = "handleMinimapClick" /\ ~minimapDrag.isDragging) =>
          \A pos \in PointerPositions :
            handleMinimapClick(pos[1], pos[2]) =>
              /\ Plus(viewport'.x, Over(viewport'.width, Num(2)))
                   = graphPoint(pos[1], minimapWidth, viewBox.x, viewBox.width)
              /\ Plus(viewport'.y, Over(viewport'.height, Num(2)))
                   = graphPoint(pos[2], minimapHeight, viewBox.y, viewBox.height)]_vars

\* C33: a pointer move during a pan sets viewport.x and viewport.y to the
\* origin the pan started from minus the pointer's movement times viewport
\* size over canvas size, and leaves width, height and scale as they were; a
\* viewport-change request of the minimap never changes width or height, and
\* leaves scale at the value the request carries (the scale the minimap was
\* given) or, when it carries none, as it was.
C33_OnlyOriginMoves ==
  [][/\ call'.op = "handleMouseMoveWithPanning" =>
          \A pos \in PointerPositions, d \in DragDeltas :
            handleMouseMoveWithPanning(pos[1], pos[2], d, d) =>
              /\ viewport'.x =
                   Minus(panStartViewport.x,
                         Times(Num(pos[1] - panStartPos[1]),
                               Over(viewport.width, Num(canvasWidth))))
              /\ viewport'.y =
                   Minus(panStartViewport.y,
                         Times(Num(pos[2] - panStartPos[2]),
                               Over(viewport.height, Num(canvasHeight))))
              /\ viewport'.width = viewport.width
              /\ viewport'.height = viewport.height
              /\ viewport'.scale = viewport.scale
     /\ call'.op \in {"handleMinimapClick", "handleMinimapMouseMove",
                      "handleViewportMouseDown.handleMouseMove"} =>
          /\ viewport'.width = viewport.width
          /\ viewport'.height = viewport.height
          /\ viewport'.scale = viewport.scale]_vars

C33_Witness ==
  /\ call.op = "handleMouseMoveWithPanning"
  /\ isPanning
  /\ viewport.scale # Num(1)
  /\ viewport.x # panStartViewport.x
  /\ panStartViewport.x # Num(0)

\* C34: the undo stack and the redo stack together never hold more than
\* maxStackSize actions, so an undo() or redo() that returns true moves one
\* action from one stack to the other and its size limit drops none.
C34_CombinedHistorySize ==
  [][/\ Len(undoStack') + Len(redoStack') <= maxStackSize
     /\ (call'.op = "undo" /\ call'.ret = "true") =>
          /\ stackIds(undoStack') = pop(stackIds(undoStack))
          /\ stackIds(redoStack') = Append(stackIds(redoStack), top(undoStack).id)
     /\ (call'.op = "redo" /\ call'.ret = "true") =>
          /\ stackIds(redoStack') = pop(stackIds(redoStack))
          /\ stackIds(undoStack') = Append(stackIds(undoStack), top(redoStack).id)]_vars

C34_Witness ==
  /\ call.op = "undo"
  /\ call.ret = "true"
  /\ Len(undoStack) = 0
  /\ Len(redoStack) = maxStackSize

\* C35: with a fixed config, every state reached from the empty graph by
\* addNode, removeNode, addEdge, removeEdge, duplicateNode,
\* deleteSelectedNodes, clearGraph, undo and redo has at most maxNodes nodes
\* and at most maxEdges edges.
C35_CapsOverSequences ==
  /\ Len(nodes) <= graphConfig.maxNodes
  /\ Len(edges) <= graphConfig.maxEdges
  /\ graphConfig = config

C35_Witness ==
  /\ call.op = "duplicateNode"
  /\ call.ret = "null"
  /\ Len(nodes) = maxNodes
  /\ Len(redoStack) > 0

\* C36 (as claimed): every id in selectedNodes is the id of a node of the
\* graph and every id in selectedEdges is the id of an edge of the graph.
C36_SelectionExists ==
  /\ Range(selectedNodes) \subseteq SeqIds(nodes)
  /\ Range(selectedEdges) \subseteq SeqIds(edges)

\* C37 (as claimed): after an undo() or redo() that returns true,
\* selectedNodes and selectedEdges are empty and no node and no edge of the
\* restored graph is flagged selected.
C37_ReplayResetsSelection ==
  [][(call'.op \in {"undo", "redo"} /\ call'.ret = "true") =>
       /\ selectedNodes' = <<>>
       /\ selectedEdges' = <<>>
       /\ \A i \in DOMAIN nodes' : ~nodes'[i].selected
       /\ \A i \in DOMAIN edges' : ~edges'[i].selected]_vars

====
